---- MODULE Spec2Model ----
(***************************************************************************)
(* The URL service of the shortener: UrlService (createShortUrl, getUrl,   *)
(* trackClick, deleteUrl) over the Url collection and the in-process       *)
(* cache, driven by the UrlController handlers (shortenUrl, redirect,      *)
(* getQrCode, deleteUrl).                                                  *)
(*                                                                         *)
(* Every handler is an async function.  Between two awaits its code runs   *)
(* without interruption (one event-loop turn); a store operation takes     *)
(* effect at some later moment, and the handler resumes at a still later   *)
(* one.  A request in flight is therefore a record with a position pc,     *)
(* and every action below is either one uninterrupted piece of handler     *)
(* code or one atomic operation of the store.  A piece of code that        *)
(* touches neither the cache, the clock nor the store is folded into the   *)
(* store operation it precedes or follows (it commutes with every other    *)
(* step).                                                                  *)
(***************************************************************************)
EXTENDS Integers, Sequences, FiniteSets, Bags, TLC

VARIABLES
    store,            \* the Url collection: a set of documents
    cache,            \* UrlService.cache: a Map urlCode -> document
    now,              \* the clock (new Date(), Date.now()), in milliseconds
    nextId,           \* the _id the next inserted document gets
    inflight,         \* the requests in flight: a bag of request records
    ret,              \* what the last step returned to its caller, if anything
    completedClicks,  \* history: per stored _id, the trackClick calls that returned it
    users,            \* the User collection: a set of documents
    hits,             \* the rate limiters' stores: per limiter and address, the requests counted
    nextUserId,       \* the _id the next constructed User gets
    nextKey,          \* crypto.randomBytes: the value the next draw gives
    retiredKeys       \* history: the API keys that a refresh replaced

\* the state of the URL routes, and the state of the /auth routes
authVars == <<users, hits, nextUserId, nextKey, retiredKeys>>
vars == <<store, cache, now, nextId, inflight, ret, completedClicks,
          users, hits, nextUserId, nextKey, retiredKeys>>

(***************************************************************************)
(* Bounds of the model.                                                    *)
(***************************************************************************)
MaxTime     == 1      \* the clock runs for MaxTime seconds
MaxDocs     == 2      \* documents inserted over a run
MaxClicks   == 2      \* clicks recorded on one urlCode
MaxInFlight == 2      \* requests in flight at once
MaxBatch    == 2      \* items of one bulk request
MaxBulkDocs == 3      \* documents that bulk requests may insert over a run
MaxDays     == 3      \* the clock runs for MaxDays days where it goes by half days

(***************************************************************************)
(* Program constants.                                                      *)
(***************************************************************************)
NanoidLen   == 8      \* nanoid(8)
MsPerSecond == 1000   \* parseInt(expiresIn) * 1000
MsPerDay    == 86400000  \* 1000 * 60 * 60 * 24
NullDate    == -1     \* expiresAt: { default: null }

BaseUrl == "http://localhost:3000"

(***************************************************************************)
(* Inputs.  A string is a sequence of characters, so that the alias        *)
(* format test reads its characters.                                       *)
(***************************************************************************)
Letters   == {"a", "b", "Z"}
Digits    == {"7"}
AliasClass == Letters \cup Digits \cup {"-", "_"}

GeneratedCode == [i \in 1..NanoidLen |-> "a"]
GoodAlias     == <<"b", "-", "7">>
BadAlias      == <<"b", "!">>
NoAlias       == <<>>                 \* customAlias undefined or ""
\* the alias "" of a body { customAlias: "" }: the code reads customAlias
\* only through tests that take "" and undefined alike (both are falsy)
EmptyAlias    == NoAlias
SuppliedAliases == {GoodAlias, BadAlias, EmptyAlias}

UrlCodes      == {GeneratedCode, GoodAlias}
\* a long URL is the sequence of its parts (isURL reads them)
LongUrls      == {<<"https", "://", "example", ".", "com">>}
\* expiresIn, seconds: <<>> when absent (or falsy), <<n>> for a value that
\* parseInt reads as n ("0" is read as 0, and is truthy)
ExpiresIns    == {<<>>, <<-1>>, <<0>>, <<1>>}

\* An id arrives as a string (JWT payload) or as an ObjectId (API key
\* lookup, stored documents).
UserIds == {[rep |-> "String",   hex |-> "u1"],
            [rep |-> "ObjectId", hex |-> "u1"],
            [rep |-> "String",   hex |-> "u2"]}
NoUser  == [rep |-> "", hex |-> ""]

\* The bodies of POST /urls: a custom alias with every expiresIn, and a
\* generated code without expiry.
ShortenBodies ==
    {[longUrl |-> l, customAlias |-> a, expiresIn |-> e] :
        l \in LongUrls, a \in {GoodAlias, BadAlias}, e \in ExpiresIns}
    \cup {[longUrl |-> l, customAlias |-> NoAlias, expiresIn |-> <<>>] : l \in LongUrls}
Creators == {[rep |-> "String", hex |-> "u1"]}

\* The codes of GET /:code (clicks go to the aliased code), of
\* GET /urls/:code/qr and of DELETE /urls/:code.
RedirectCodes == {GoodAlias}
QrCodes       == UrlCodes
DeleteCodes   == UrlCodes

\* The long URLs of POST /urls/bulk, as sequences of their parts, and the
\* items of a batch (no item carries expiresAt)
ValidLongUrl     == <<"https", "://", "valid-url", ".", "com">>
MalformedLongUrl == <<"invalid-url">>
BulkLongUrls     == {ValidLongUrl, MalformedLongUrl}
NanoidCodes      == {[i \in 1..NanoidLen |-> "a"], [i \in 1..NanoidLen |-> "c"]}
BulkItems ==
    {[longUrl |-> ValidLongUrl, customAlias |-> a] : a \in {NoAlias, GoodAlias, BadAlias}}
    \cup {[longUrl |-> MalformedLongUrl, customAlias |-> NoAlias]}
RECURSIVE SeqsUpTo(_, _)
SeqsUpTo(S, n) ==
    IF n = 0 THEN {<<>>}
    ELSE LET shorter == SeqsUpTo(S, n - 1)
         IN  shorter \cup {Append(t, x) : t \in {u \in shorter : Len(u) = n - 1}, x \in S}
BulkBodies == SeqsUpTo(BulkItems, MaxBatch)

\* A User-Agent header is the sequence of its product names. A header that
\* the request does not carry is <<>>, one that it carries is <<value>>.
UaChrome   == <<"Mozilla", "AppleWebKit", "Chrome", "Safari">>
UaFirefox  == <<"Mozilla", "Gecko", "Firefox">>
UaSafari   == <<"Mozilla", "AppleWebKit", "Version", "Safari">>
UaOldEdge  == <<"Mozilla", "AppleWebKit", "Chrome", "Safari", "Edge">>
UaEdge     == <<"Edge">>
UaCurl     == <<"curl">>
ReqDatas == {[ip |-> "10.0.0.1", userAgent |-> <<UaChrome>>,
              referer |-> <<"https://google.com">>]}
NoData   == [ip |-> "", userAgent |-> <<>>, referer |-> <<>>]
\* the requests of GET /:code whose clicks the statistics read
StatsReqDatas ==
    {[ip |-> "10.0.0.1", userAgent |-> <<UaChrome>>,  referer |-> <<"https://google.com">>],
     [ip |-> "10.0.0.1", userAgent |-> <<UaFirefox>>, referer |-> <<"">>],
     [ip |-> "10.0.0.1", userAgent |-> <<UaSafari>>,  referer |-> <<>>],
     [ip |-> "10.0.0.1", userAgent |-> <<UaEdge>>,    referer |-> <<"https://google.com">>],
     [ip |-> "10.0.0.1", userAgent |-> <<UaCurl>>,    referer |-> <<>>],
     [ip |-> "10.0.0.1", userAgent |-> <<UaOldEdge>>, referer |-> <<"constructor">>],
     [ip |-> "10.0.0.1", userAgent |-> <<>>,          referer |-> <<>>]}

(***************************************************************************)
(* Conversions and tests of the code.                                      *)
(***************************************************************************)
\* /^[a-zA-Z0-9-_]+$/.test(customAlias)
ValidAlias(alias) ==
    /\ Len(alias) > 0
    /\ \A i \in 1..Len(alias) : alias[i] \in AliasClass

\* mongoose casts userId to the schema's ObjectId
CastObjectId(userId) == [rep |-> "ObjectId", hex |-> userId.hex]

\* url.userId.toString(), userId.toString()
IdToString(userId) == userId.hex

\* `${config.baseUrl}/${urlCode}`
ShortUrlOf(urlCode) == <<BaseUrl, "/", urlCode>>

\* QRCode.toDataURL(shortUrl): the image payload of a text
QrCodeOf(shortUrl) == <<"data:image/png;base64", shortUrl>>

\* new Date(Date.now() + parseInt(expiresIn) * 1000), null without expiresIn
ExpiresAtOf(expiresIn, t) ==
    IF expiresIn = <<>> THEN NullDate ELSE t + expiresIn[1] * MsPerSecond

\* new Error(`${prefix}: ${error.message}`): the message chain, cause last
Wrap(prefix, error) == <<prefix>> \o error

Cause(error) == error[Len(error)]

ErrInvalidAlias == <<"Custom alias can only contain letters, numbers, hyphens, and underscores">>
ErrAliasInUse   == <<"Custom alias already in use">>
ErrDuplicateKey == <<"E11000 duplicate key error">>
ErrQrCode       == <<"The amount of data is too big to be stored in a QR Code">>
ErrNotFound     == <<"URL not found">>
ErrExpired      == <<"URL has expired">>
ErrNoDocument   == <<"No document found for query">>
ErrNoSuchUrl    == <<"No such URL">>
ErrNotAuthorized == <<"Not authorized">>
ErrUndefinedIncludes == <<"Cannot read properties of undefined (reading 'includes')">>
NoError         == <<>>

(***************************************************************************)
(* The Url model.                                                          *)
(***************************************************************************)
\* new Url({urlCode, longUrl, shortUrl, qrCode, expiresAt, userId}), with
\* the schema's defaults
NewUrl(urlCode, longUrl, expiresAt, userId, t) ==
    [id        |-> 0,
     userId    |-> CastObjectId(userId),
     urlCode   |-> urlCode,
     longUrl   |-> longUrl,
     shortUrl  |-> ShortUrlOf(urlCode),
     qrCode    |-> QrCodeOf(ShortUrlOf(urlCode)),
     clicks    |-> 0,
     analytics |-> <<>>,
     createdAt |-> t,
     expiresAt |-> expiresAt,
     isExpired |-> FALSE]

\* urlSchema.pre('save')
PreSave(url, t) ==
    IF url.expiresAt # NullDate /\ t > url.expiresAt
    THEN [url EXCEPT !.isExpired = TRUE]
    ELSE url

\* Url.findOne({ urlCode }): a document or none (a sequence of at most one)
FindOne(urlCode) ==
    LET found == {u \in store : u.urlCode = urlCode}
    IN  IF found = {} THEN <<>> ELSE <<CHOOSE u \in found : TRUE>>

\* a collection without the unique index
DuplicateKeyNoIndex(url) == FALSE

\* urlCode: { unique: true }: the index refuses a second document of a code
DuplicateKey(url) == \E u \in store : u.urlCode = url.urlCode

\* an update that counts the click and forgets the $push
IncOnly(url, event) == [url EXCEPT !.clicks = @ + 1]

\* { $inc: { clicks: 1 }, $push: { analytics: event } }
IncAndPush(url, event) ==
    [url EXCEPT !.clicks = @ + 1, !.analytics = Append(@, event)]

\* a save that does not carry the flag
SetExpiredLost(url) == url

\* a flagging that also moves the deadline to the moment of the lookup
SetExpiredStampsDeadline(url) == [url EXCEPT !.isExpired = TRUE, !.expiresAt = now]

\* the update of url.save() on a loaded document: only the modified path
SetExpired(url) == [url EXCEPT !.isExpired = TRUE]

(***************************************************************************)
(* The cache: a Map.                                                       *)
(***************************************************************************)
CacheHas(urlCode)      == urlCode \in DOMAIN cache
\* a write that keeps the cached version of the record when it has more clicks
CacheSetIfNewer(urlCode, url) ==
    IF /\ CacheHas(urlCode) /\ cache[urlCode].id = url.id
       /\ cache[urlCode].clicks > url.clicks
    THEN cache
    ELSE [c \in (DOMAIN cache) \cup {urlCode} |->
             IF c = urlCode THEN url ELSE cache[c]]
CacheSet(urlCode, url) == [c \in (DOMAIN cache) \cup {urlCode} |->
                              IF c = urlCode THEN url ELSE cache[c]]
CacheDelete(urlCode)   == [c \in (DOMAIN cache) \ {urlCode} |-> cache[c]]

\* a test of the flag alone, without the deadline
CacheFreshFlagOnly(cachedUrl, t) == ~cachedUrl.isExpired

\* getUrl's test of a cached document
CacheFresh(cachedUrl, t) ==
    /\ ~cachedUrl.isExpired
    /\ (cachedUrl.expiresAt = NullDate \/ t < cachedUrl.expiresAt)

\* getUrl's test of a document read from the store
StoreExpired(url, t) ==
    url.isExpired \/ (url.expiresAt # NullDate /\ t > url.expiresAt)

(***************************************************************************)
(* Requests in flight and returns.                                         *)
(***************************************************************************)
NoReq == [op |-> "", pc |-> "", urlCode |-> <<>>, longUrl |-> <<>>,
          customAlias |-> <<>>, expiresAt |-> NullDate, userId |-> NoUser,
          url |-> <<>>, updated |-> <<>>, timestamp |-> NullDate,
          reqData |-> NoData, urls |-> <<>>, results |-> <<>>,
          user |-> <<>>]

Requests   == BagToSet(inflight)
Enter(q)   == inflight (+) SetToBag({q})
Leave(q)   == inflight (-) SetToBag({q})
Move(q, r) == (inflight (-) SetToBag({q})) (+) SetToBag({r})
\* the number of requests in flight among those of S
InFlight(S) ==
    IF S = {} THEN 0 ELSE BagCardinality([q \in S |-> inflight[q]])
CanEnter   == BagCardinality(inflight) < MaxInFlight

\* ret: op is the service call that returned (or "redirect", the handler's
\* answer), handler the controller method it ran for, status the HTTP status
\* the handler answered with (0: the handler goes on), results the array a
\* call returned, stats the report of getUrlStats
NoRet == [op |-> "", handler |-> "", urlCode |-> <<>>, ok |-> FALSE,
          error |-> NoError, url |-> <<>>, tracked |-> <<>>, via |-> "",
          status |-> 0, results |-> <<>>, stats |-> <<>>, urls |-> <<>>,
          user |-> <<>>]

Init ==
    /\ store = {}
    /\ cache = << >>
    /\ now = 0
    /\ nextId = 1
    /\ inflight = EmptyBag
    /\ ret = NoRet
    /\ completedClicks = << >>
    /\ users = {}
    /\ hits = [limiter \in {"authLimiter", "registerLimiter"} |->
                  [ip \in {"10.0.0.1", "10.0.0.2"} |-> 0]]
    /\ nextUserId = 1
    /\ nextKey = 1
    /\ retiredKeys = {}

\* the clock advances by half a day
TickHalfDay ==
    /\ now < MaxDays * MsPerDay
    /\ now' = now + MsPerDay \div 2
    /\ ret' = NoRet
    /\ UNCHANGED <<store, cache, nextId, inflight, completedClicks>>

\* the clock advances
Tick ==
    /\ now < MaxTime * MsPerSecond
    /\ now' = now + MsPerSecond
    /\ ret' = NoRet
    /\ UNCHANGED <<store, cache, nextId, inflight, completedClicks>>

(***************************************************************************)
(* UrlService.createShortUrl, called by UrlController.shortenUrl.          *)
(***************************************************************************)
IsCreate(q) == q.op = "shortenUrl"

CreateFails(urlCode, error) ==
    [NoRet EXCEPT !.op = "createShortUrl", !.handler = "shortenUrl",
                  !.urlCode = urlCode, !.error = Wrap("Error creating short URL", error),
                  !.status = 400]

\* a creation that does not look the alias up
createShortUrlNoLookup(longUrl, customAlias, expiresAt, userId) ==
    /\ CanEnter
    /\ (nextId - 1) + InFlight({q \in Requests : IsCreate(q)}) < MaxDocs
    /\ \E urlCode \in (IF customAlias # NoAlias THEN {customAlias} ELSE {GeneratedCode}) :
         IF customAlias # NoAlias /\ ~ValidAlias(customAlias)
         THEN /\ ret' = CreateFails(urlCode, ErrInvalidAlias)
              /\ UNCHANGED inflight
         ELSE /\ inflight' = Enter([NoReq EXCEPT !.op = "shortenUrl", !.pc = "qrCode",
                                      !.urlCode = urlCode, !.longUrl = longUrl,
                                      !.customAlias = customAlias,
                                      !.expiresAt = expiresAt, !.userId = userId])
              /\ ret' = NoRet
    /\ UNCHANGED <<store, cache, now, nextId, completedClicks>>

\* the call up to its first wait: the code is chosen, the alias format is
\* tested, and for a custom alias the store answers Url.findOne
createShortUrl(longUrl, customAlias, expiresAt, userId) ==
    /\ CanEnter
    /\ (nextId - 1) + InFlight({q \in Requests : IsCreate(q)}) < MaxDocs
    /\ \E urlCode \in (IF customAlias # NoAlias THEN {customAlias} ELSE {GeneratedCode}) :
         IF customAlias # NoAlias /\ ~ValidAlias(customAlias)
         THEN /\ ret' = CreateFails(urlCode, ErrInvalidAlias)
              /\ UNCHANGED inflight
         ELSE IF customAlias # NoAlias /\ FindOne(customAlias) # <<>>
         THEN /\ ret' = CreateFails(urlCode, ErrAliasInUse)
              /\ UNCHANGED inflight
         ELSE /\ inflight' = Enter([NoReq EXCEPT !.op = "shortenUrl", !.pc = "qrCode",
                                      !.urlCode = urlCode, !.longUrl = longUrl,
                                      !.customAlias = customAlias,
                                      !.expiresAt = expiresAt, !.userId = userId])
              /\ ret' = NoRet
    /\ UNCHANGED <<store, cache, now, nextId, completedClicks>>

\* UrlController.shortenUrl
shortenUrl(longUrl, customAlias, expiresIn, userId) ==
    createShortUrl(longUrl, customAlias, ExpiresAtOf(expiresIn, now), userId)

\* QRCode.toDataURL rejects (the text does not fit a QR code): rethrown
createShortUrlQrFails(q) ==
    /\ q.op = "shortenUrl" /\ q.pc = "qrCode"
    /\ inflight' = Leave(q)
    /\ ret' = CreateFails(q.urlCode, ErrQrCode)
    /\ UNCHANGED <<store, cache, now, nextId, completedClicks>>

\* a creation that primes the cache before the insert
createShortUrlSavePrimesCache(q) ==
    /\ q.op = "shortenUrl" /\ q.pc = "qrCode"
    /\ LET url == PreSave(NewUrl(q.urlCode, q.longUrl, q.expiresAt, q.userId, now), now)
       IN  /\ inflight' = Move(q, [q EXCEPT !.pc = "save", !.url = <<url>>])
           /\ cache' = CacheSet(q.urlCode, url)
    /\ ret' = NoRet
    /\ UNCHANGED <<store, now, nextId, completedClicks>>

\* QRCode.toDataURL has answered: the document is built and url.save()
\* runs the pre-save hook and sends the insert
createShortUrlSave(q) ==
    /\ q.op = "shortenUrl" /\ q.pc = "qrCode"
    /\ inflight' = Move(q, [q EXCEPT !.pc = "save",
                              !.url = <<PreSave(NewUrl(q.urlCode, q.longUrl, q.expiresAt,
                                                       q.userId, now), now)>>])
    /\ ret' = NoRet
    /\ UNCHANGED <<store, cache, now, nextId, completedClicks>>

\* an insert that replaces the document of the code (an upsert)
createShortUrlUpsert(q) ==
    /\ q.op = "shortenUrl" /\ q.pc = "save"
    /\ LET url == [q.url[1] EXCEPT !.id = nextId]
       IN  /\ store' = {u \in store : u.urlCode # url.urlCode} \cup {url}
           /\ nextId' = nextId + 1
           /\ completedClicks' = [id \in {u.id : u \in store'} |->
                                    IF id = nextId THEN 0 ELSE completedClicks[id]]
           /\ inflight' = Move(q, [q EXCEPT !.pc = "saved", !.url = <<url>>])
           /\ ret' = NoRet
    /\ UNCHANGED <<cache, now>>

\* the store applies the insert, or refuses it; a refusal is rethrown
createShortUrlInsert(q) ==
    /\ q.op = "shortenUrl" /\ q.pc = "save"
    /\ IF DuplicateKey(q.url[1])
       THEN /\ inflight' = Leave(q)
            /\ ret' = CreateFails(q.urlCode, ErrDuplicateKey)
            /\ UNCHANGED <<store, nextId, completedClicks>>
       ELSE LET url == [q.url[1] EXCEPT !.id = nextId]
            IN  /\ store' = store \cup {url}
                /\ nextId' = nextId + 1
                /\ completedClicks' = completedClicks @@ (nextId :> 0)
                /\ inflight' = Move(q, [q EXCEPT !.pc = "saved", !.url = <<url>>])
                /\ ret' = NoRet
    /\ UNCHANGED <<cache, now>>

\* a creation that returns the record without priming the cache
createShortUrlReturnNoPrime(q) ==
    /\ q.op = "shortenUrl" /\ q.pc = "saved"
    /\ inflight' = Leave(q)
    /\ ret' = [NoRet EXCEPT !.op = "createShortUrl", !.handler = "shortenUrl",
                            !.urlCode = q.urlCode, !.ok = TRUE, !.url = q.url,
                            !.status = 200]
    /\ UNCHANGED <<store, cache, now, nextId, completedClicks>>

\* after url.save(): this.cache.set(urlCode, url); return url
createShortUrlReturn(q) ==
    /\ q.op = "shortenUrl" /\ q.pc = "saved"
    /\ cache' = CacheSet(q.urlCode, q.url[1])
    /\ inflight' = Leave(q)
    /\ ret' = [NoRet EXCEPT !.op = "createShortUrl", !.handler = "shortenUrl",
                            !.urlCode = q.urlCode, !.ok = TRUE, !.url = q.url,
                            !.status = 200]
    /\ UNCHANGED <<store, now, nextId, completedClicks>>

(***************************************************************************)
(* UrlService.getUrl, called by UrlController.redirect and getQrCode, and  *)
(* UrlService.trackClick, called by UrlController.redirect.                *)
(***************************************************************************)
Handlers == {"redirect", "getQrCode"}

\* getQrCode answers 404 for a message that includes 'not found', else 500;
\* redirect answers 404 for every error
ErrorStatus(handler, error) ==
    IF handler = "redirect" \/ Cause(error) = ErrNotFound[1] THEN 404 ELSE 500

GetUrlFails(q, error) ==
    [NoRet EXCEPT !.op = "getUrl", !.handler = q.op, !.urlCode = q.urlCode,
                  !.error = Wrap("Error retrieving URL", error),
                  !.url = q.url, !.via = "store",
                  !.status = ErrorStatus(q.op, error)]

GetUrlReturns(handler, urlCode, url, via) ==
    [NoRet EXCEPT !.op = "getUrl", !.handler = handler, !.urlCode = urlCode,
                  !.ok = TRUE, !.url = <<url>>, !.via = via,
                  !.status = IF handler = "redirect" THEN 0 ELSE 200]

\* a click is still to be applied for the request
ClickPending(urlCode, q) ==
    /\ q.op = "redirect" /\ q.urlCode = urlCode
    /\ q.pc \in {"findOne", "found", "findOneAndUpdate"}

ClicksOf(urlCode) ==
    IF FindOne(urlCode) = <<>> THEN 0 ELSE FindOne(urlCode)[1].clicks

\* redirect, after getUrl returned url: trackClick builds the update with
\* timestamp: new Date() and sends it
TrackClickCall(q, url) ==
    [q EXCEPT !.pc = "findOneAndUpdate", !.url = <<url>>, !.timestamp = now]

\* the call up to its first wait: the cache is read; a fresh entry is
\* returned, a stale one is deleted and Url.findOne is sent
getUrl(handler, urlCode, reqData) ==
    /\ CanEnter
    /\ handler = "redirect" =>
         ClicksOf(urlCode) + InFlight({q \in Requests : ClickPending(urlCode, q)}) < MaxClicks
    /\ LET q == [NoReq EXCEPT !.op = handler, !.pc = "findOne", !.urlCode = urlCode,
                              !.reqData = reqData]
       IN  IF CacheHas(urlCode) /\ CacheFresh(cache[urlCode], now)
           THEN /\ ret' = GetUrlReturns(handler, urlCode, cache[urlCode], "cache")
                /\ inflight' = IF handler = "redirect"
                               THEN Enter(TrackClickCall(q, cache[urlCode]))
                               ELSE inflight
                /\ UNCHANGED cache
           ELSE /\ cache' = CacheDelete(urlCode)
                /\ inflight' = Enter(q)
                /\ ret' = NoRet
    /\ UNCHANGED <<store, now, nextId, completedClicks>>

\* a lookup that remembers a miss in the cache
getUrlFindOneCachesMiss(q) ==
    /\ q.op \in Handlers /\ q.pc = "findOne"
    /\ IF FindOne(q.urlCode) = <<>>
       THEN /\ inflight' = Leave(q)
            /\ cache' = CacheSet(q.urlCode,
                           SetExpired(NewUrl(q.urlCode, <<>>, NullDate, NoUser, now)))
            /\ ret' = GetUrlFails(q, ErrNotFound)
       ELSE /\ inflight' = Move(q, [q EXCEPT !.pc = "found", !.url = FindOne(q.urlCode)])
            /\ cache' = cache
            /\ ret' = NoRet
    /\ UNCHANGED <<store, now, nextId, completedClicks>>

\* the store answers Url.findOne; no document: 'URL not found' is thrown
getUrlFindOne(q) ==
    /\ q.op \in Handlers /\ q.pc = "findOne"
    /\ IF FindOne(q.urlCode) = <<>>
       THEN /\ inflight' = Leave(q)
            /\ ret' = GetUrlFails(q, ErrNotFound)
       ELSE /\ inflight' = Move(q, [q EXCEPT !.pc = "found", !.url = FindOne(q.urlCode)])
            /\ ret' = NoRet
    /\ UNCHANGED <<store, cache, now, nextId, completedClicks>>

\* getUrl resumes with the document: an expired one is flagged and saved,
\* another one is cached and returned
getUrlFound(q) ==
    /\ q.op \in Handlers /\ q.pc = "found"
    /\ LET url == q.url[1]
       IN  IF StoreExpired(url, now)
           THEN /\ inflight' = Move(q, [q EXCEPT !.pc = "save", !.url = <<SetExpired(url)>>])
                /\ cache' = cache /\ ret' = NoRet
           ELSE /\ cache' = CacheSet(q.urlCode, url)
                /\ ret' = GetUrlReturns(q.op, q.urlCode, url, "store")
                /\ inflight' = IF q.op = "redirect"
                               THEN Move(q, TrackClickCall(q, url))
                               ELSE Leave(q)
    /\ UNCHANGED <<store, now, nextId, completedClicks>>

\* a save that writes the whole loaded document back
getUrlSaveWholeDocument(q) ==
    /\ q.op \in Handlers /\ q.pc = "save"
    /\ LET stored == {u \in store : u.id = q.url[1].id}
       IN  IF stored = {}
           THEN /\ ret' = GetUrlFails(q, ErrNoDocument)
                /\ UNCHANGED store
           ELSE /\ store' = (store \ stored) \cup {q.url[1]}
                /\ ret' = GetUrlFails(q, ErrExpired)
    /\ inflight' = Leave(q)
    /\ UNCHANGED <<cache, now, nextId, completedClicks>>

\* the store applies url.save() of the flagged document (the update sets
\* isExpired on the document of that _id; none left: DocumentNotFoundError),
\* then 'URL has expired' is thrown
getUrlSave(q) ==
    /\ q.op \in Handlers /\ q.pc = "save"
    /\ LET stored == {u \in store : u.id = q.url[1].id}
       IN  IF stored = {}
           THEN /\ ret' = GetUrlFails(q, ErrNoDocument)
                /\ UNCHANGED store
           ELSE /\ store' = (store \ stored) \cup {SetExpired(u) : u \in stored}
                /\ ret' = GetUrlFails(q, ErrExpired)
    /\ inflight' = Leave(q)
    /\ UNCHANGED <<cache, now, nextId, completedClicks>>

ClickEvent(q) ==
    [timestamp |-> q.timestamp, ipAddress |-> q.reqData.ip,
     userAgent |-> q.reqData.userAgent, referer |-> q.reqData.referer]

\* a read-then-write click: the document getUrl returned is incremented and
\* written back
trackClickUpdateReadThenWrite(q) ==
    /\ q.op = "redirect" /\ q.pc = "findOneAndUpdate"
    /\ IF FindOne(q.urlCode) = <<>>
       THEN /\ inflight' = Move(q, [q EXCEPT !.pc = "updated", !.updated = <<>>])
            /\ UNCHANGED store
       ELSE LET old == FindOne(q.urlCode)[1]
                new == IncAndPush([q.url[1] EXCEPT !.id = old.id], ClickEvent(q))
            IN  /\ store' = (store \ {old}) \cup {new}
                /\ inflight' = Move(q, [q EXCEPT !.pc = "updated", !.updated = <<new>>])
    /\ ret' = NoRet
    /\ UNCHANGED <<cache, now, nextId, completedClicks>>

\* an update with upsert: a miss inserts a record of the code
trackClickUpdateUpsert(q) ==
    /\ q.op = "redirect" /\ q.pc = "findOneAndUpdate"
    /\ LET old == IF FindOne(q.urlCode) = <<>>
                  THEN [NewUrl(q.urlCode, <<>>, NullDate, NoUser, now) EXCEPT !.id = nextId]
                  ELSE FindOne(q.urlCode)[1]
           new == IncAndPush(old, ClickEvent(q))
       IN  /\ store' = (store \ {old}) \cup {new}
           /\ nextId' = IF FindOne(q.urlCode) = <<>> THEN nextId + 1 ELSE nextId
           /\ inflight' = Move(q, [q EXCEPT !.pc = "updated", !.updated = <<new>>])
    /\ ret' = NoRet
    /\ UNCHANGED <<cache, now, completedClicks>>

\* the store applies Url.findOneAndUpdate({urlCode}, {$inc, $push}, {new: true})
trackClickUpdate(q) ==
    /\ q.op = "redirect" /\ q.pc = "findOneAndUpdate"
    /\ IF FindOne(q.urlCode) = <<>>
       THEN /\ inflight' = Move(q, [q EXCEPT !.pc = "updated", !.updated = <<>>])
            /\ UNCHANGED store
       ELSE LET old == FindOne(q.urlCode)[1]
                new == IncAndPush(old, ClickEvent(q))
            IN  /\ store' = (store \ {old}) \cup {new}
                /\ inflight' = Move(q, [q EXCEPT !.pc = "updated", !.updated = <<new>>])
    /\ ret' = NoRet
    /\ UNCHANGED <<cache, now, nextId, completedClicks>>

\* the handler's answer once trackClick has returned
RedirectAnswer(q) ==
    [NoRet EXCEPT !.op = "redirect", !.handler = "redirect", !.urlCode = q.urlCode,
                  !.ok = TRUE, !.url = q.url, !.tracked = q.updated,
                  !.status = 302]

\* trackClick resumes: if (url) this.cache.set(urlCode, url); return url;
\* then redirect answers res.redirect(url.longUrl)
trackClickReturn(q) ==
    /\ q.op = "redirect" /\ q.pc = "updated"
    /\ IF q.updated = <<>>
       THEN UNCHANGED <<cache, completedClicks>>
       ELSE /\ cache' = CacheSet(q.urlCode, q.updated[1])
            /\ completedClicks' =
                 [id \in DOMAIN completedClicks |->
                    completedClicks[id] + (IF id = q.updated[1].id THEN 1 ELSE 0)]
    /\ ret' = RedirectAnswer(q)
    /\ inflight' = Leave(q)
    /\ UNCHANGED <<store, now, nextId>>

(***************************************************************************)
(* UrlService.deleteUrl, called by UrlController.deleteUrl.                *)
(***************************************************************************)
\* a comparison of the ids as they arrive, without toString()
AuthorizedSameObject(url, userId) == url.userId = userId

\* urlUserId !== requestUserId, on the string versions
Authorized(url, userId) == IdToString(url.userId) = IdToString(userId)

DeleteReturns(urlCode, ok, error, status, url) ==
    [NoRet EXCEPT !.op = "deleteUrl", !.handler = "deleteUrl", !.urlCode = urlCode,
                  !.ok = ok, !.error = error, !.url = url,
                  !.status = status]

\* the call up to url.deleteOne(): the store answers Url.findOne, and the
\* owner is tested
deleteUrl(urlCode, userId) ==
    /\ CanEnter
    /\ IF FindOne(urlCode) = <<>>
       THEN /\ ret' = DeleteReturns(urlCode, FALSE, ErrNoSuchUrl, 404, <<>>)
            /\ UNCHANGED inflight
       ELSE IF ~Authorized(FindOne(urlCode)[1], userId)
       THEN /\ ret' = DeleteReturns(urlCode, FALSE, ErrNotAuthorized, 403, <<>>)
            /\ UNCHANGED inflight
       ELSE /\ inflight' = Enter([NoReq EXCEPT !.op = "deleteUrl", !.pc = "deleteOne",
                                     !.urlCode = urlCode, !.url = FindOne(urlCode)])
            /\ ret' = NoRet
    /\ UNCHANGED <<store, cache, now, nextId, completedClicks>>

\* the store applies url.deleteOne() (by _id), and the document is returned
deleteUrlDeleteOne(q) ==
    /\ q.op = "deleteUrl" /\ q.pc = "deleteOne"
    /\ store' = {u \in store : u.id # q.url[1].id}
    /\ completedClicks' = [id \in DOMAIN completedClicks \ {q.url[1].id} |->
                             completedClicks[id]]
    /\ inflight' = Leave(q)
    /\ ret' = DeleteReturns(q.urlCode, TRUE, NoError, 200, q.url)
    /\ UNCHANGED <<cache, now, nextId>>

(***************************************************************************)
(* POST /urls/bulk: urlValidator, UrlController.createBulkUrls and         *)
(* UrlService.createBulkUrls, whose loop awaits one createShortUrl per     *)
(* item.                                                                   *)
(***************************************************************************)
\* isURL(str, { require_protocol: true }): a protocol, "://" and a host
\* with a top-level domain, no white space
UrlProtocols == {"http", "https", "ftp"}
isURL(str) ==
    /\ Len(str) >= 5
    /\ str[1] \in UrlProtocols /\ str[2] = "://" /\ str[4] = "."
    /\ \A i \in 1..Len(str) : str[i] # " "

\* encodeURI(longUrl): the characters outside the URI set are escaped
encodeURI(str) ==
    [i \in 1..Len(str) |-> IF str[i] = "%" THEN "%25"
                           ELSE IF str[i] = " " THEN "%20" ELSE str[i]]

\* urlValidator on /urls/bulk: the first item that is no URL refuses the
\* request (status 400), else every longUrl is sanitized and next() runs
urlValidator(urls) ==
    IF \E i \in 1..Len(urls) : urls[i].longUrl = <<>> \/ ~isURL(urls[i].longUrl)
    THEN [status |-> 400, error |-> <<"Invalid URL format">>, urls |-> urls]
    ELSE [status |-> 0, error |-> NoError,
          urls |-> [i \in 1..Len(urls) |->
                       [urls[i] EXCEPT !.longUrl = encodeURI(urls[i].longUrl)]]]

IsBulk(q) == q.op = "createBulkUrls"

\* the items that the bulk requests in flight have not settled yet
RECURSIVE PendingItems(_)
PendingItems(S) ==
    IF S = {} THEN 0
    ELSE LET q == CHOOSE r \in S : TRUE
         IN  inflight[q] * (Len(q.urls) - Len(q.results)) + PendingItems(S \ {q})

\* results.push({ success: true, originalUrl, shortUrl })
Success(q) ==
    [success |-> TRUE, originalUrl |-> q.longUrl, shortUrl |-> q.url[1].shortUrl,
     error |-> NoError]

\* results.push({ success: false, originalUrl, error: error.message })
Failure(longUrl, error) ==
    [success |-> FALSE, originalUrl |-> longUrl, shortUrl |-> <<>>,
     error |-> Wrap("Error creating short URL", error)]

\* a loop without the try/catch: the first failure fails the whole call
BulkNextAborts(q, outcome) ==
    LET results == Append(q.results, outcome)
    IN  IF ~outcome.success
        THEN /\ inflight' = Leave(q)
             /\ ret' = [NoRet EXCEPT !.op = "createBulkUrls", !.handler = "createBulkUrls",
                                     !.error = outcome.error, !.status = 400]
        ELSE IF Len(results) = Len(q.urls)
        THEN /\ inflight' = Leave(q)
             /\ ret' = [NoRet EXCEPT !.op = "createBulkUrls", !.handler = "createBulkUrls",
                                     !.ok = TRUE, !.results = results, !.status = 200]
        ELSE /\ inflight' = Move(q, [NoReq EXCEPT !.op = "createBulkUrls", !.pc = "item",
                                                  !.userId = q.userId, !.urls = q.urls,
                                                  !.results = results])
             /\ ret' = NoRet

\* after results.push: the loop takes the next item, or the results are
\* returned and the handler answers res.json(results)
BulkNext(q, outcome) ==
    LET results == Append(q.results, outcome)
    IN  IF Len(results) = Len(q.urls)
        THEN /\ inflight' = Leave(q)
             /\ ret' = [NoRet EXCEPT !.op = "createBulkUrls", !.handler = "createBulkUrls",
                                     !.ok = TRUE, !.results = results, !.status = 200]
        ELSE /\ inflight' = Move(q, [NoReq EXCEPT !.op = "createBulkUrls", !.pc = "item",
                                                  !.userId = q.userId, !.urls = q.urls,
                                                  !.results = results])
             /\ ret' = NoRet

\* UrlService.createBulkUrls(urls, userId): results = [], the loop starts
createBulkUrls(urls, userId) ==
    /\ CanEnter
    /\ urls # <<>>
    /\ (nextId - 1) + PendingItems({q \in Requests : IsBulk(q)}) + Len(urls) <= MaxBulkDocs
    /\ inflight' = Enter([NoReq EXCEPT !.op = "createBulkUrls", !.pc = "item",
                                       !.userId = userId, !.urls = urls])
    /\ ret' = NoRet
    /\ UNCHANGED <<store, cache, now, nextId, completedClicks>>

\* POST /urls/bulk: urlValidator, then UrlController.createBulkUrls
createBulkUrlsRoute(urls, userId) ==
    IF urlValidator(urls).status # 0
    THEN /\ ret' = [NoRet EXCEPT !.op = "urlValidator", !.handler = "createBulkUrls",
                                 !.error = urlValidator(urls).error,
                                 !.status = urlValidator(urls).status]
         /\ UNCHANGED <<store, cache, now, nextId, inflight, completedClicks>>
    ELSE IF urls = <<>>
    THEN /\ ret' = [NoRet EXCEPT !.op = "UrlController.createBulkUrls",
                                 !.handler = "createBulkUrls",
                                 !.error = <<"Invalid URLs array">>, !.status = 400]
         /\ UNCHANGED <<store, cache, now, nextId, inflight, completedClicks>>
    ELSE createBulkUrls(urlValidator(urls).urls, userId)

\* the loop calls createShortUrl for the next item: the code is chosen, the
\* alias format is tested, and for a custom alias the store answers
\* Url.findOne; a throw is caught and pushed
createBulkUrlsCall(q) ==
    /\ IsBulk(q) /\ q.pc = "item"
    /\ LET item == q.urls[Len(q.results) + 1]
           customAlias == item.customAlias
       IN  \E urlCode \in (IF customAlias # NoAlias THEN {customAlias} ELSE NanoidCodes) :
             IF customAlias # NoAlias /\ ~ValidAlias(customAlias)
             THEN BulkNext(q, Failure(item.longUrl, ErrInvalidAlias))
             ELSE IF customAlias # NoAlias /\ FindOne(customAlias) # <<>>
             THEN BulkNext(q, Failure(item.longUrl, ErrAliasInUse))
             ELSE /\ inflight' = Move(q, [q EXCEPT !.pc = "qrCode", !.urlCode = urlCode,
                                                   !.longUrl = item.longUrl,
                                                   !.customAlias = customAlias])
                  /\ ret' = NoRet
    /\ UNCHANGED <<store, cache, now, nextId, completedClicks>>

\* QRCode.toDataURL rejects: caught and pushed
createBulkUrlsQrFails(q) ==
    /\ IsBulk(q) /\ q.pc = "qrCode"
    /\ BulkNext(q, Failure(q.longUrl, ErrQrCode))
    /\ UNCHANGED <<store, cache, now, nextId, completedClicks>>

\* QRCode.toDataURL has answered: the document is built (expiresAt is the
\* item's, absent here) and url.save() sends the insert
createBulkUrlsSave(q) ==
    /\ IsBulk(q) /\ q.pc = "qrCode"
    /\ inflight' = Move(q, [q EXCEPT !.pc = "save",
                              !.url = <<PreSave(NewUrl(q.urlCode, q.longUrl, q.expiresAt,
                                                       q.userId, now), now)>>])
    /\ ret' = NoRet
    /\ UNCHANGED <<store, cache, now, nextId, completedClicks>>

\* the store applies the insert, or refuses it; a refusal is caught and
\* pushed
createBulkUrlsInsert(q) ==
    /\ IsBulk(q) /\ q.pc = "save"
    /\ IF DuplicateKey(q.url[1])
       THEN /\ BulkNext(q, Failure(q.longUrl, ErrDuplicateKey))
            /\ UNCHANGED <<store, nextId, completedClicks>>
       ELSE LET url == [q.url[1] EXCEPT !.id = nextId]
            IN  /\ store' = store \cup {url}
                /\ nextId' = nextId + 1
                /\ completedClicks' = completedClicks @@ (nextId :> 0)
                /\ inflight' = Move(q, [q EXCEPT !.pc = "saved", !.url = <<url>>])
                /\ ret' = NoRet
    /\ UNCHANGED <<cache, now>>

\* createShortUrl resumes after url.save(): cache.set, return url; the loop
\* pushes the success
createBulkUrlsPush(q) ==
    /\ IsBulk(q) /\ q.pc = "saved"
    /\ cache' = CacheSet(q.urlCode, q.url[1])
    /\ BulkNext(q, Success(q))
    /\ UNCHANGED <<store, now, nextId, completedClicks>>

(***************************************************************************)
(* UrlService.getAllUrls, called by UrlController.getAllUrls.              *)
(***************************************************************************)
\* a filter that compares the ids as they arrive, without the cast
FindNoCast(userId) == {u \in store : u.userId = userId}

\* Url.find({ userId }): the filter value is cast to the schema's ObjectId
Find(userId) == {u \in store : u.userId = CastObjectId(userId)}

\* .select('urlCode longUrl shortUrl clicks createdAt expiresAt')
Select(u) ==
    [id |-> u.id, urlCode |-> u.urlCode, longUrl |-> u.longUrl,
     shortUrl |-> u.shortUrl, clicks |-> u.clicks, createdAt |-> u.createdAt,
     expiresAt |-> u.expiresAt]

\* .sort({ createdAt: -1 }): the orders of S that never go from an older
\* document to a newer one (documents of one instant come in any order)
SortCreatedAtDesc(S) ==
    {s \in [1..Cardinality(S) -> S] :
        /\ \A i, j \in 1..Cardinality(S) : i # j => s[i] # s[j]
        /\ \A i, j \in 1..Cardinality(S) : i < j => s[i].createdAt >= s[j].createdAt}

\* GET /urls: the store answers the query, and the handler answers
\* res.json({ success: true, data: urls })
getAllUrls(userId) ==
    /\ \E urls \in SortCreatedAtDesc(Find(userId)) :
         ret' = [NoRet EXCEPT !.op = "getAllUrls", !.handler = "getAllUrls",
                              !.ok = TRUE, !.status = 200,
                              !.urls = [i \in 1..Len(urls) |-> Select(urls[i])]]
    /\ UNCHANGED <<store, cache, now, nextId, inflight, completedClicks>>

(***************************************************************************)
(* UrlService.getUrlStats, called by UrlController.getUrlStats.            *)
(***************************************************************************)
\* userAgent.includes(name)
Includes(userAgent, name) == \E i \in 1..Len(userAgent) : userAgent[i] = name

\* getBrowserFromUserAgent(click.userAgent): the first test that matches;
\* on an event without userAgent, undefined.includes throws a TypeError
getBrowserFromUserAgent(userAgent) ==
    IF userAgent = <<>> THEN "TypeError"
    ELSE IF Includes(userAgent[1], "Chrome") THEN "Chrome"
    ELSE IF Includes(userAgent[1], "Firefox") THEN "Firefox"
    ELSE IF Includes(userAgent[1], "Safari") THEN "Safari"
    ELSE IF Includes(userAgent[1], "Edge") THEN "Edge"
    ELSE "Other"

\* click.referer || 'Direct'
ReferrerOf(click) ==
    IF click.referer = <<>> \/ click.referer[1] = "" THEN "Direct" ELSE click.referer[1]

\* What a fresh object {} answers for keys it does not own: the members of
\* Object.prototype, here by the text that string concatenation gives them
ObjectPrototype ==
    [constructor |-> "function Object() { [native code] }",
     toString    |-> "function toString() { [native code] }",
     valueOf     |-> "function valueOf() { [native code] }",
     __proto__   |-> "[object Object]"]

\* A value of referrerStats: the number value, or the string that is text
\* followed by value characters "1"
Number(n)    == [type |-> "number", text |-> "", value |-> n]
String(text) == [type |-> "string", text |-> text, value |-> 0]
\* v + 1: addition on a number, concatenation on a string
PlusOne(v)   == [v EXCEPT !.value = @ + 1]

\* referrerStats[referrer] = (referrerStats[referrer] || 0) + 1 over the
\* events: an own value is truthy, an inherited member is truthy, undefined
\* gives 0; an assignment of a string to __proto__ is ignored
RECURSIVE ReferrerStats(_)
ReferrerStats(log) ==
    IF log = <<>> THEN <<>>
    ELSE LET stats    == ReferrerStats(SubSeq(log, 1, Len(log) - 1))
             referrer == ReferrerOf(log[Len(log)])
         IN  IF referrer \in DOMAIN stats
             THEN [stats EXCEPT ![referrer] = PlusOne(@)]
             ELSE IF referrer = "__proto__" THEN stats
             ELSE IF referrer \in DOMAIN ObjectPrototype
             THEN stats @@ (referrer :> PlusOne(String(ObjectPrototype[referrer])))
             ELSE stats @@ (referrer :> PlusOne(Number(0)))

\* click.timestamp.toISOString().split('T')[0]: the UTC day, counted from
\* 1970-01-01
DateOf(timestamp) == timestamp \div MsPerDay

\* stats[key] = (stats[key] || 0) + 1 over the keys of the events, for
\* keys that are no member of Object.prototype (browser labels)
Histogram(keys) ==
    [k \in {keys[i] : i \in 1..Len(keys)} |->
        Cardinality({i \in 1..Len(keys) : keys[i] = k})]

\* clicksByDate[date] = (clicksByDate[date] || 0) + 1 over the events: the
\* entries of the object, in the order in which the dates were first met
RECURSIVE ClicksByDate(_)
ClicksByDate(log) ==
    IF log = <<>> THEN <<>>
    ELSE LET entries == ClicksByDate(SubSeq(log, 1, Len(log) - 1))
             date    == DateOf(log[Len(log)].timestamp)
         IN  IF \E i \in 1..Len(entries) : entries[i].date = date
             THEN [i \in 1..Len(entries) |->
                     IF entries[i].date = date
                     THEN [entries[i] EXCEPT !.clicks = @ + 1]
                     ELSE entries[i]]
             ELSE Append(entries, [date |-> date, clicks |-> 1])

\* the entries left in the order of the object
UnsortedEntries(entries) == entries

\* Object.fromEntries(Object.entries(clicksByDate).sort()): the entries
\* from the earliest date to the latest
SortedEntries(entries) ==
    CHOOSE s \in [1..Len(entries) -> {entries[i] : i \in 1..Len(entries)}] :
        \A i, j \in 1..Len(entries) : i < j => s[i].date < s[j].date

\* whole days only: Math.floor for Math.ceil
DaysSinceFloor(firstClick, t) ==
    LET days == (t - firstClick) \div MsPerDay
    IN  IF days > 1 THEN days ELSE 1

\* Math.max(1, Math.ceil((new Date() - firstClick) / (1000 * 60 * 60 * 24)))
DaysSince(firstClick, t) ==
    LET days == ((t - firstClick) + MsPerDay - 1) \div MsPerDay
    IN  IF days > 1 THEN days ELSE 1

\* (url.clicks / daysSinceCreation).toFixed(2), in hundredths
ToFixed2(clicks, days) == (200 * clicks + days) \div (2 * days)

\* the analytics object of a document, computed at time t
Aggregate(url, t) ==
    LET log == url.analytics
    IN  [totalClicks   |-> url.clicks,
         browserStats  |-> Histogram([i \in 1..Len(log) |->
                                        getBrowserFromUserAgent(log[i].userAgent)]),
         referrerStats |-> ReferrerStats(log),
         clicksByDate  |-> SortedEntries(ClicksByDate(log)),
         lastClicked   |-> IF Len(log) > 0 THEN <<log[Len(log)].timestamp>> ELSE <<>>,
         averageClicksPerDay |->
             IF Len(log) > 0
             THEN ToFixed2(url.clicks, DaysSince(log[1].timestamp, t))
             ELSE 0]

StatsFails(urlCode, url, error) ==
    [NoRet EXCEPT !.op = "getUrlStats", !.handler = "getUrlStats", !.urlCode = urlCode,
                  !.error = Wrap("Error getting URL stats", error), !.url = url,
                  !.status = 404]

\* statistics that are refused for an expired document
getUrlStatsRefusesExpired(urlCode) ==
    /\ CanEnter
    /\ IF FindOne(urlCode) = <<>>
       THEN /\ ret' = StatsFails(urlCode, <<>>, ErrNotFound)
            /\ UNCHANGED inflight
       ELSE IF StoreExpired(FindOne(urlCode)[1], now)
       THEN /\ ret' = StatsFails(urlCode, FindOne(urlCode), ErrExpired)
            /\ UNCHANGED inflight
       ELSE /\ inflight' = Enter([NoReq EXCEPT !.op = "getUrlStats", !.pc = "found",
                                     !.urlCode = urlCode, !.url = FindOne(urlCode)])
            /\ ret' = NoRet
    /\ UNCHANGED <<store, cache, now, nextId, completedClicks>>

\* the call up to the answer of Url.findOne: no document, 'URL not found'
getUrlStats(urlCode) ==
    /\ CanEnter
    /\ IF FindOne(urlCode) = <<>>
       THEN /\ ret' = StatsFails(urlCode, <<>>, ErrNotFound)
            /\ UNCHANGED inflight
       ELSE /\ inflight' = Enter([NoReq EXCEPT !.op = "getUrlStats", !.pc = "found",
                                     !.urlCode = urlCode, !.url = FindOne(urlCode)])
            /\ ret' = NoRet
    /\ UNCHANGED <<store, cache, now, nextId, completedClicks>>

\* getUrlStats resumes with the document: the statistics are computed, or
\* the classifier throws and the error is wrapped; the handler answers
getUrlStatsReturn(q) ==
    /\ q.op = "getUrlStats" /\ q.pc = "found"
    /\ inflight' = Leave(q)
    /\ ret' = IF \E i \in 1..Len(q.url[1].analytics) :
                   getBrowserFromUserAgent(q.url[1].analytics[i].userAgent) = "TypeError"
              THEN StatsFails(q.urlCode, q.url, ErrUndefinedIncludes)
              ELSE [NoRet EXCEPT !.op = "getUrlStats", !.handler = "getUrlStats",
                                 !.urlCode = q.urlCode, !.ok = TRUE, !.url = q.url,
                                 !.stats = <<Aggregate(q.url[1], now)>>, !.status = 200]
    /\ UNCHANGED <<store, cache, now, nextId, completedClicks>>

(***************************************************************************)
(* The /auth routes: the rate limiters, AuthController (register, login,   *)
(* refreshApiKey) over the User collection, and the auth middleware of     *)
(* the protected routes.                                                   *)
(*                                                                         *)
(* A limiter counts a request when it arrives; that step is folded into    *)
(* the handler's first piece of code and the query it awaits first.        *)
(***************************************************************************)
\* express-rate-limit: at most max requests per address between two resets
AuthMax     == 20
RegisterMax == 20
Limiters    == {"authLimiter", "registerLimiter"}
Ips         == {"10.0.0.1", "10.0.0.2"}
MaxOf(limiter) == IF limiter = "authLimiter" THEN AuthMax ELSE RegisterMax

\* the model stops counting an address's requests there
MaxLoginHits    == 21
MaxRegisterHits == 2
MaxKeys         == 4

NoHits == [limiter \in Limiters |-> [ip \in Ips |-> 0]]
\* MemoryStore.increment, and the middleware's test of the count it returns
Increment(limiter, ip) == [hits EXCEPT ![limiter][ip] = @ + 1]
Limited(limiter, ip)   == Increment(limiter, ip)[limiter][ip] > MaxOf(limiter)

\* MemoryStore.resetAll, which the store's timer calls every windowMs
resetAll(limiter) ==
    /\ hits' = [hits EXCEPT ![limiter] = [ip \in Ips |-> 0]]
    /\ ret' = NoRet
    /\ UNCHANGED <<store, cache, now, nextId, inflight, completedClicks,
                   users, nextUserId, nextKey, retiredKeys>>

\* Strings of the /auth bodies are tuples of characters; an absent field
\* and '' are both <<>> (the code tests their truthiness only)
Whitespace == {" "}
RECURSIVE TrimStart(_)
TrimStart(s) ==
    IF s # <<>> /\ Head(s) \in Whitespace THEN TrimStart(Tail(s)) ELSE s
RECURSIVE TrimEnd(_)
TrimEnd(s) ==
    IF s # <<>> /\ s[Len(s)] \in Whitespace
    THEN TrimEnd(SubSeq(s, 1, Len(s) - 1)) ELSE s
Trim(s) == TrimEnd(TrimStart(s))
LowerCaseOf(c) ==
    CASE c = "A" -> "a" [] c = "B" -> "b" [] c = "C" -> "c" [] OTHER -> c
ToLowerCase(s) == [i \in 1..Len(s) |-> LowerCaseOf(s[i])]
\* /^[^\s@]+@[^\s@]+\.[^\s@]+$/
emailRegex(s) ==
    /\ \A i \in 1..Len(s) : s[i] \notin Whitespace
    /\ Cardinality({i \in 1..Len(s) : s[i] = "@"}) = 1
    /\ \E i \in 2..Len(s) :
         /\ s[i] = "@"
         /\ \E j \in (i + 2)..(Len(s) - 1) : s[j] = "."

Email1       == <<"a", "@", "b", ".", "c">>
Email1Padded == <<" ", "A", "@", "B", ".", "c", " ">>
Email2       == <<"c", "@", "b", ".", "c">>
BadEmail     == <<"a", "@", "b">>
GoodPassword == <<"p", "a", "s", "s", "w", "o", "r", "d">>
ShortPassword == <<"s", "h", "o", "r", "t">>
RegisterBodies ==
    {[email |-> e, password |-> GoodPassword] : e \in {Email1, Email1Padded, Email2}}
        \cup {[email |-> Email1, password |-> ShortPassword],
              [email |-> BadEmail, password |-> GoodPassword],
              [email |-> <<>>, password |-> GoodPassword]}
LoginBodies ==
    {[email |-> e, password |-> p] :
        e \in {Email1, Email2}, p \in {GoodPassword, ShortPassword}}

\* bcrypt.hash: the stored password is not the plain one
Hash(password) == <<"$2a$10$">> \o password
\* a path the schema declares select: false is left out of a query's result
NotSelected == <<>>
SelectUser(user) ==
    [user EXCEPT !.password = NotSelected, !.apiKey = NotSelected]
\* User.findOne(filter): the stored users that match, as the query gives them
FindUsersByEmail(email)   == {SelectUser(u) : u \in {v \in users : v.email = email}}
FindUsersByApiKey(apiKey) == {SelectUser(u) : u \in {v \in users : v.apiKey = apiKey}}
\* bcrypt.compare(s, hash): throws unless both are strings
CompareThrows(s, hash) == hash = NotSelected
Compare(s, hash)       == hash = Hash(s)

\* the unique indexes of the User collection
UserDuplicateKey(user, us) ==
    \E u \in us : u.email = user.email \/ u.apiKey = user.apiKey
\* an update that the store does not apply
KeepApiKeys(us, id, apiKey) == us
\* findByIdAndUpdate(id, {apiKey}): the collection with the user's key set
WithApiKey(us, id, apiKey) ==
    {IF u.id = id THEN [u EXCEPT !.apiKey = apiKey] ELSE u : u \in us}

AuthFrame == UNCHANGED <<store, cache, now, nextId, completedClicks>>

\* POST /auth/register: registerLimiter; then the validation of the body,
\* the lookup of the normalised email, the draw of the API key and the
\* construction of the User, whose save is sent
register(body, ip) ==
    /\ hits.registerLimiter[ip] < MaxRegisterHits
    /\ hits' = Increment("registerLimiter", ip)
    /\ AuthFrame
    /\ UNCHANGED <<users, retiredKeys>>
    /\ LET normalizedEmail == ToLowerCase(Trim(body.email))
           answer(status, error) ==
               /\ ret' = [NoRet EXCEPT !.op = "register", !.handler = "register",
                                       !.status = status, !.error = error]
               /\ UNCHANGED <<inflight, nextUserId, nextKey>>
       IN  IF Limited("registerLimiter", ip)
           THEN /\ ret' = [NoRet EXCEPT !.op = "register",
                                        !.handler = "registerLimiter",
                                        !.status = 429]
                /\ UNCHANGED <<inflight, nextUserId, nextKey>>
           ELSE IF body.email = <<>> \/ body.password = <<>>
           THEN answer(400, <<"Email and password are required">>)
           ELSE IF Len(body.password) < 8
           THEN answer(400, <<"Password must be at least 8 characters long">>)
           ELSE IF ~emailRegex(normalizedEmail)
           THEN answer(400, <<"Invalid email format">>)
           ELSE IF FindUsersByEmail(normalizedEmail) # {}
           THEN answer(400, <<"Email already registered">>)
           ELSE /\ CanEnter
                /\ nextKey <= MaxKeys
                /\ inflight' = Enter([NoReq EXCEPT
                                        !.op = "register", !.pc = "save",
                                        !.user = [id |-> nextUserId,
                                                  email |-> normalizedEmail,
                                                  password |-> body.password,
                                                  apiKey |-> nextKey]])
                /\ nextUserId' = nextUserId + 1
                /\ nextKey' = nextKey + 1
                /\ ret' = NoRet

\* user.save(): the pre-save hook hashes the password, the store inserts
\* the document unless a unique index refuses it, and register answers
\* with the token and the API key
registerSave(q) ==
    /\ q.op = "register" /\ q.pc = "save"
    /\ inflight' = Leave(q)
    /\ AuthFrame
    /\ UNCHANGED <<hits, nextUserId, nextKey, retiredKeys>>
    /\ LET user == [q.user EXCEPT !.password = Hash(@)]
       IN  IF UserDuplicateKey(user, users)
           THEN /\ users' = users
                /\ ret' = [NoRet EXCEPT !.op = "register", !.handler = "register",
                                        !.status = 500,
                                        !.error = <<"E11000 duplicate key error">>]
           ELSE /\ users' = users \cup {user}
                /\ ret' = [NoRet EXCEPT !.op = "register", !.handler = "register",
                                        !.ok = TRUE, !.status = 201,
                                        !.user = [id |-> user.id, apiKey |-> user.apiKey]]

\* POST /auth/login: authLimiter, then the handler
login(body, ip) ==
    /\ hits.authLimiter[ip] < MaxLoginHits
    /\ hits' = Increment("authLimiter", ip)
    /\ AuthFrame
    /\ UNCHANGED <<inflight, users, nextUserId, nextKey, retiredKeys>>
    /\ LET found == FindUsersByEmail(body.email)
           answer(status, error) ==
               ret' = [NoRet EXCEPT !.op = "login", !.handler = "login",
                                    !.status = status, !.error = error]
       IN  IF Limited("authLimiter", ip)
           THEN ret' = [NoRet EXCEPT !.op = "login", !.handler = "authLimiter",
                                     !.status = 429,
                                     !.error = <<"Too many login attempts, please try again later">>]
           ELSE IF found = {}
           THEN answer(401, <<"Invalid credentials">>)
           ELSE \E user \in found :
                  IF CompareThrows(body.password, user.password)
                  THEN answer(500, <<"Illegal arguments: string, undefined">>)
                  ELSE IF ~Compare(body.password, user.password)
                  THEN answer(401, <<"Invalid credentials">>)
                  ELSE ret' = [NoRet EXCEPT !.op = "login", !.handler = "login",
                                            !.ok = TRUE, !.status = 200,
                                            !.user = [id |-> user.id,
                                                      apiKey |-> user.apiKey]]

\* What a request presents to the auth middleware: a token that register
\* signed for a user, a token that does not verify, an API key, or nothing
NoCredentials == [kind |-> "", userId |-> 0, apiKey |-> 0, verifies |-> FALSE]
BogusKey == 0
Credentials ==
    {[NoCredentials EXCEPT !.kind = "Bearer", !.userId = u.id, !.verifies = TRUE] :
        u \in users}
    \cup {[NoCredentials EXCEPT !.kind = "Bearer"]}
    \cup {[NoCredentials EXCEPT !.kind = "X-API-Key", !.apiKey = k] :
            k \in {BogusKey} \cup 1..(nextKey - 1)}
    \cup {NoCredentials}

\* the auth middleware: the user id it sets on the request, or the 401 it
\* answers with
Authenticate(credentials) ==
    IF credentials.kind = "Bearer"
    THEN IF credentials.verifies
         THEN [status |-> 0, userId |-> credentials.userId, error |-> <<>>]
         ELSE [status |-> 401, userId |-> 0, error |-> <<"Invalid authentication">>]
    ELSE IF credentials.kind = "X-API-Key"
    THEN LET found == FindUsersByApiKey(credentials.apiKey)
         IN  IF found # {}
             THEN [status |-> 0, userId |-> (CHOOSE u \in found : TRUE).id,
                   error |-> <<>>]
             ELSE [status |-> 401, userId |-> 0, error |-> <<"Invalid API key">>]
    ELSE [status |-> 401, userId |-> 0, error |-> <<"Authentication required">>]

\* a request to a protected route, up to the point where the middleware
\* hands it to the route's handler (status 0) or answers 401
auth(credentials) ==
    /\ ret' = [NoRet EXCEPT !.op = "auth", !.handler = "auth",
                            !.via = credentials.kind,
                            !.ok = Authenticate(credentials).status = 0,
                            !.status = Authenticate(credentials).status,
                            !.error = Authenticate(credentials).error,
                            !.user = [id |-> Authenticate(credentials).userId,
                                      apiKey |-> credentials.apiKey]]
    /\ AuthFrame
    /\ UNCHANGED <<inflight, users, hits, nextUserId, nextKey, retiredKeys>>

\* POST /auth/refresh-api-key: the middleware, then the draw of the new
\* key, whose update is sent
refreshApiKey(credentials) ==
    /\ AuthFrame
    /\ UNCHANGED <<users, hits, nextUserId, retiredKeys>>
    /\ IF Authenticate(credentials).status # 0
       THEN /\ ret' = [NoRet EXCEPT !.op = "refreshApiKey", !.handler = "auth",
                                    !.status = Authenticate(credentials).status,
                                    !.error = Authenticate(credentials).error]
            /\ UNCHANGED <<inflight, nextKey>>
       ELSE /\ CanEnter
            /\ nextKey <= MaxKeys
            /\ inflight' = Enter([NoReq EXCEPT
                                    !.op = "refreshApiKey",
                                    !.pc = "findByIdAndUpdate",
                                    !.user = [id |-> Authenticate(credentials).userId,
                                              apiKey |-> nextKey]])
            /\ nextKey' = nextKey + 1
            /\ ret' = NoRet

\* the store applies the update (the unique index on apiKey may refuse
\* it), and refreshApiKey answers with the new key
refreshApiKeyUpdate(q) ==
    /\ q.op = "refreshApiKey" /\ q.pc = "findByIdAndUpdate"
    /\ inflight' = Leave(q)
    /\ AuthFrame
    /\ UNCHANGED <<hits, nextUserId, nextKey>>
    /\ IF \E u \in users : u.id # q.user.id /\ u.apiKey = q.user.apiKey
       THEN /\ UNCHANGED <<users, retiredKeys>>
            /\ ret' = [NoRet EXCEPT !.op = "refreshApiKey",
                                    !.handler = "refreshApiKey",
                                    !.status = 500,
                                    !.error = <<"E11000 duplicate key error">>]
       ELSE /\ users' = WithApiKey(users, q.user.id, q.user.apiKey)
            /\ retiredKeys' = retiredKeys \cup
                   {u.apiKey : u \in {v \in users : v.id = q.user.id
                                                    /\ v.apiKey # q.user.apiKey}}
            /\ ret' = [NoRet EXCEPT !.op = "refreshApiKey",
                                    !.handler = "refreshApiKey",
                                    !.ok = TRUE, !.status = 200, !.user = q.user]

\* Logging in: an account is registered from one address, and login
\* requests come from two addresses while the limiters' windows end
LoginAccounts == {body \in RegisterBodies : body.email = Email1}
RegisterIp    == CHOOSE ip \in Ips : TRUE
NextLogin ==
    \/ \E body \in LoginAccounts : register(body, RegisterIp)
    \/ \E q \in Requests : registerSave(q)
    \/ \E body \in LoginBodies, ip \in Ips : login(body, ip)
    \/ \E limiter \in Limiters : resetAll(limiter)

SpecLogin == Init /\ [][NextLogin]_vars

\* API keys: accounts are registered, refresh their keys, and requests
\* present tokens and keys to the protected routes
NextKeys ==
    \/ \E body \in RegisterBodies, ip \in Ips : register(body, ip)
    \/ \E q \in Requests : registerSave(q)
    \/ \E credentials \in Credentials : refreshApiKey(credentials)
    \/ \E q \in Requests : refreshApiKeyUpdate(q)
    \/ \E credentials \in Credentials : auth(credentials)

SpecKeys == Init /\ [][NextKeys]_vars

(***************************************************************************)
(* The service.                                                            *)
(***************************************************************************)
Next ==
    \/ Tick /\ UNCHANGED authVars
    \/ \E body \in ShortenBodies, userId \in Creators :
         shortenUrl(body.longUrl, body.customAlias, body.expiresIn, userId) /\ UNCHANGED authVars
    \/ \E urlCode \in RedirectCodes, reqData \in ReqDatas :
         getUrl("redirect", urlCode, reqData) /\ UNCHANGED authVars
    \/ \E urlCode \in QrCodes : getUrl("getQrCode", urlCode, NoData) /\ UNCHANGED authVars
    \/ \E urlCode \in DeleteCodes, userId \in UserIds : deleteUrl(urlCode, userId) /\ UNCHANGED authVars
    \/ \E q \in Requests : createShortUrlQrFails(q) /\ UNCHANGED authVars
    \/ \E q \in Requests : createShortUrlSave(q) /\ UNCHANGED authVars
    \/ \E q \in Requests : createShortUrlInsert(q) /\ UNCHANGED authVars
    \/ \E q \in Requests : createShortUrlReturn(q) /\ UNCHANGED authVars
    \/ \E q \in Requests : getUrlFindOne(q) /\ UNCHANGED authVars
    \/ \E q \in Requests : getUrlFound(q) /\ UNCHANGED authVars
    \/ \E q \in Requests : getUrlSave(q) /\ UNCHANGED authVars
    \/ \E q \in Requests : trackClickUpdate(q) /\ UNCHANGED authVars
    \/ \E q \in Requests : trackClickReturn(q) /\ UNCHANGED authVars
    \/ \E q \in Requests : deleteUrlDeleteOne(q) /\ UNCHANGED authVars

Spec == Init /\ [][Next]_vars

\* Bulk creation: batches sent to the route, two at a time, with lookups
\* of the codes
NextBulk ==
    \/ \E urls \in BulkBodies, userId \in Creators : createBulkUrlsRoute(urls, userId) /\ UNCHANGED authVars
    \/ \E q \in Requests : createBulkUrlsCall(q) /\ UNCHANGED authVars
    \/ \E q \in Requests : createBulkUrlsQrFails(q) /\ UNCHANGED authVars
    \/ \E q \in Requests : createBulkUrlsSave(q) /\ UNCHANGED authVars
    \/ \E q \in Requests : createBulkUrlsInsert(q) /\ UNCHANGED authVars
    \/ \E q \in Requests : createBulkUrlsPush(q) /\ UNCHANGED authVars
    \/ \E urlCode \in UrlCodes \cup NanoidCodes : getUrl("getQrCode", urlCode, NoData) /\ UNCHANGED authVars
    \/ \E q \in Requests : getUrlFindOne(q) /\ UNCHANGED authVars
    \/ \E q \in Requests : getUrlFound(q) /\ UNCHANGED authVars

SpecBulk == Init /\ [][NextBulk]_vars

\* Listing: two owners create one URL at a time through the bulk route
\* (QR generation succeeds), delete the aliased one, and list under every
\* form of their ids, while the clock runs
ListBodies ==
    {<<[longUrl |-> ValidLongUrl, customAlias |-> a]>> : a \in {NoAlias, GoodAlias}}
ListOwners == {userId \in UserIds : userId.rep = "String"}
NextList ==
    \/ Tick /\ UNCHANGED authVars
    \/ \E urls \in ListBodies, userId \in ListOwners : createBulkUrlsRoute(urls, userId) /\ UNCHANGED authVars
    \/ \E q \in Requests : createBulkUrlsCall(q) /\ UNCHANGED authVars
    \/ \E q \in Requests : createBulkUrlsSave(q) /\ UNCHANGED authVars
    \/ \E q \in Requests : createBulkUrlsInsert(q) /\ UNCHANGED authVars
    \/ \E q \in Requests : createBulkUrlsPush(q) /\ UNCHANGED authVars
    \/ \E userId \in ListOwners : deleteUrl(GoodAlias, userId) /\ UNCHANGED authVars
    \/ \E q \in Requests : deleteUrlDeleteOne(q) /\ UNCHANGED authVars
    \/ \E userId \in UserIds : getAllUrls(userId) /\ UNCHANGED authVars

SpecList == Init /\ [][NextList]_vars

\* Statistics: one URL is created under a generated code and clicked from
\* several clients while the clock runs, and its statistics are asked for
StatsBodies == {body \in ShortenBodies : body.customAlias = NoAlias}
StatsCodes  == {GeneratedCode, GoodAlias}
NextStats ==
    \/ Tick /\ UNCHANGED authVars
    \/ \E body \in StatsBodies, userId \in Creators :
         shortenUrl(body.longUrl, body.customAlias, body.expiresIn, userId) /\ UNCHANGED authVars
    \/ \E q \in Requests : createShortUrlSave(q) /\ UNCHANGED authVars
    \/ \E q \in Requests : createShortUrlInsert(q) /\ UNCHANGED authVars
    \/ \E q \in Requests : createShortUrlReturn(q) /\ UNCHANGED authVars
    \/ \E reqData \in StatsReqDatas : getUrl("redirect", GeneratedCode, reqData) /\ UNCHANGED authVars
    \/ \E q \in Requests : getUrlFindOne(q) /\ UNCHANGED authVars
    \/ \E q \in Requests : getUrlFound(q) /\ UNCHANGED authVars
    \/ \E q \in Requests : trackClickUpdate(q) /\ UNCHANGED authVars
    \/ \E q \in Requests : trackClickReturn(q) /\ UNCHANGED authVars
    \/ \E urlCode \in StatsCodes : getUrlStats(urlCode) /\ UNCHANGED authVars
    \/ \E q \in Requests : getUrlStatsReturn(q) /\ UNCHANGED authVars

SpecStats == Init /\ [][NextStats]_vars

\* Statistics over days: one URL is created and clicked while the clock
\* goes by half days, and its statistics are asked for
NextDays ==
    \/ TickHalfDay /\ UNCHANGED authVars
    \/ \E body \in StatsBodies, userId \in Creators :
         shortenUrl(body.longUrl, body.customAlias, body.expiresIn, userId) /\ UNCHANGED authVars
    \/ \E q \in Requests : createShortUrlSave(q) /\ UNCHANGED authVars
    \/ \E q \in Requests : createShortUrlInsert(q) /\ UNCHANGED authVars
    \/ \E q \in Requests : createShortUrlReturn(q) /\ UNCHANGED authVars
    \/ \E reqData \in ReqDatas : getUrl("redirect", GeneratedCode, reqData) /\ UNCHANGED authVars
    \/ \E q \in Requests : getUrlFindOne(q) /\ UNCHANGED authVars
    \/ \E q \in Requests : getUrlFound(q) /\ UNCHANGED authVars
    \/ \E q \in Requests : trackClickUpdate(q) /\ UNCHANGED authVars
    \/ \E q \in Requests : trackClickReturn(q) /\ UNCHANGED authVars
    \/ getUrlStats(GeneratedCode) /\ UNCHANGED authVars
    \/ \E q \in Requests : getUrlStatsReturn(q) /\ UNCHANGED authVars

SpecDays == Init /\ [][NextDays]_vars

\* Expired records: a URL that is created past its deadline, or with its
\* deadline at the next second, is clicked, resolved, asked for statistics
\* and deleted
ExpiryBodies ==
    {body \in ShortenBodies :
        body.customAlias = GoodAlias /\ body.expiresIn \in {<<-1>>, <<0>>}}
NextExpiry ==
    \/ Tick /\ UNCHANGED authVars
    \/ \E body \in ExpiryBodies, userId \in Creators :
         shortenUrl(body.longUrl, body.customAlias, body.expiresIn, userId) /\ UNCHANGED authVars
    \/ \E q \in Requests : createShortUrlSave(q) /\ UNCHANGED authVars
    \/ \E q \in Requests : createShortUrlInsert(q) /\ UNCHANGED authVars
    \/ \E q \in Requests : createShortUrlReturn(q) /\ UNCHANGED authVars
    \/ \E reqData \in ReqDatas : getUrl("redirect", GoodAlias, reqData) /\ UNCHANGED authVars
    \/ getUrl("getQrCode", GoodAlias, NoData) /\ UNCHANGED authVars
    \/ \E q \in Requests : getUrlFindOne(q) /\ UNCHANGED authVars
    \/ \E q \in Requests : getUrlFound(q) /\ UNCHANGED authVars
    \/ \E q \in Requests : getUrlSave(q) /\ UNCHANGED authVars
    \/ \E q \in Requests : trackClickUpdate(q) /\ UNCHANGED authVars
    \/ \E q \in Requests : trackClickReturn(q) /\ UNCHANGED authVars
    \/ getUrlStats(GoodAlias) /\ UNCHANGED authVars
    \/ \E q \in Requests : getUrlStatsReturn(q) /\ UNCHANGED authVars
    \/ \E userId \in UserIds : deleteUrl(GoodAlias, userId) /\ UNCHANGED authVars
    \/ \E q \in Requests : deleteUrlDeleteOne(q) /\ UNCHANGED authVars

SpecExpiry == Init /\ [][NextExpiry]_vars

\* Records over their lifetime: URLs are created under an alias (with no
\* deadline, or with the deadline at the next second) and under a generated
\* code, and the aliased one is clicked, resolved, asked for statistics,
\* listed and deleted by its owner and by others
RecordBodies ==
    {body \in ShortenBodies :
        \/ body.customAlias = GoodAlias /\ body.expiresIn \in {<<>>, <<0>>}
        \/ body.customAlias = NoAlias}
NextRecords ==
    \/ Tick /\ UNCHANGED authVars
    \/ \E body \in RecordBodies, userId \in Creators :
         shortenUrl(body.longUrl, body.customAlias, body.expiresIn, userId) /\ UNCHANGED authVars
    \/ \E q \in Requests : createShortUrlSave(q) /\ UNCHANGED authVars
    \/ \E q \in Requests : createShortUrlInsert(q) /\ UNCHANGED authVars
    \/ \E q \in Requests : createShortUrlReturn(q) /\ UNCHANGED authVars
    \/ \E reqData \in ReqDatas : getUrl("redirect", GoodAlias, reqData) /\ UNCHANGED authVars
    \/ getUrl("getQrCode", GoodAlias, NoData) /\ UNCHANGED authVars
    \/ \E q \in Requests : getUrlFindOne(q) /\ UNCHANGED authVars
    \/ \E q \in Requests : getUrlFound(q) /\ UNCHANGED authVars
    \/ \E q \in Requests : getUrlSave(q) /\ UNCHANGED authVars
    \/ \E q \in Requests : trackClickUpdate(q) /\ UNCHANGED authVars
    \/ \E q \in Requests : trackClickReturn(q) /\ UNCHANGED authVars
    \/ getUrlStats(GoodAlias) /\ UNCHANGED authVars
    \/ \E q \in Requests : getUrlStatsReturn(q) /\ UNCHANGED authVars
    \/ \E userId \in Creators : getAllUrls(userId) /\ UNCHANGED authVars
    \/ \E userId \in UserIds : deleteUrl(GoodAlias, userId) /\ UNCHANGED authVars
    \/ \E q \in Requests : deleteUrlDeleteOne(q) /\ UNCHANGED authVars

SpecRecords == Init /\ [][NextRecords]_vars

(***************************************************************************)
(* Properties.                                                             *)
(***************************************************************************)
StoredIds == {u.id : u \in store}

\* the trackClick calls in flight whose update the store applied to the
\* document id and that have not returned yet
AppliedClicks(id) ==
    InFlight({q \in Requests : /\ q.op = "redirect" /\ q.pc = "updated"
                               /\ q.updated # <<>> /\ q.updated[1].id = id})

\* C1: a stored record's clicks counter and the length of its analytics log
\* both equal the number of trackClick calls made on it (those that have
\* returned plus those the store has applied and that are about to return):
\* no click is lost and none is counted twice, in any interleaving.
C1_NoClickLostOrDoubled ==
    \A u \in store :
        /\ u.clicks = completedClicks[u.id] + AppliedClicks(u.id)
        /\ Len(u.analytics) = completedClicks[u.id] + AppliedClicks(u.id)

\* two clicks of one record were in flight together, and both were applied
C1_Witness ==
    \E u \in store : u.clicks = 2 /\ AppliedClicks(u.id) = 2

\* C2: the store never holds two records of one urlCode.
C2_OneRecordPerCode ==
    \A u \in store, v \in store : u.urlCode = v.urlCode => u = v

\* a creation with a generated code was refused by the index while
\* another record had the code
C2_Witness ==
    /\ ret.op = "createShortUrl" /\ ~ret.ok
    /\ ret.urlCode = GeneratedCode
    /\ Cause(ret.error) = "E11000 duplicate key error"
    /\ \E u \in store : u.urlCode = GeneratedCode

\* C3: a record that getUrl returns, from the cache or from the store, is not
\* flagged expired and its expiresAt is not earlier than the current time.
C3_GetUrlNeverReturnsExpired ==
    (ret.op = "getUrl" /\ ret.ok) =>
        /\ ~ret.url[1].isExpired
        /\ (ret.url[1].expiresAt = NullDate \/ ret.url[1].expiresAt >= now)

\* a record that was clicked (and so cached by trackClick) is refused as
\* expired later on
C3_Witness ==
    /\ ret.op = "getUrl" /\ ~ret.ok
    /\ Cause(ret.error) = "URL has expired"
    /\ ret.url # <<>> /\ ret.url[1].clicks > 0

\* C4: a getUrl that is called once deleteUrl has removed the record of the
\* code does not return that record (a getUrl answered from the cache is
\* called and answered in one step, so its record is still stored).
C4_DeletedIsNotResolved ==
    (ret.op = "getUrl" /\ ret.ok /\ ret.via = "cache") =>
        ret.url[1].id \in StoredIds

\* C5: when trackClick returns no record, redirect answers 404 and sends no
\* redirect.
C5_MissIsNotRedirected ==
    (ret.op = "redirect" /\ ret.tracked = <<>>) => ret.status = 404

\* C6: a createShortUrl with a well-formed alias that finds a record of the
\* alias fails with 'Custom alias already in use' and leaves the store and
\* the cache as they are; one that finds none goes on, its insert (the
\* alias still free) stores a fresh record under the alias, and its return
\* caches that record.
C6_AliasOnceThenInUse ==
    [][/\ \A body \in ShortenBodies, userId \in Creators :
            (/\ ValidAlias(body.customAlias)
             /\ shortenUrl(body.longUrl, body.customAlias, body.expiresIn, userId))
            => IF \E u \in store : u.urlCode = body.customAlias
               THEN /\ ret'.op = "createShortUrl" /\ ~ret'.ok
                    /\ Cause(ret'.error) = "Custom alias already in use"
                    /\ UNCHANGED <<store, cache, inflight>>
               ELSE /\ ret' = NoRet
                    /\ \E q \in BagToSet(inflight') :
                          /\ q.op = "shortenUrl" /\ q.urlCode = body.customAlias
                          /\ CopiesIn(q, inflight') = CopiesIn(q, inflight) + 1
       /\ \A q \in Requests :
            (/\ q.customAlias # NoAlias
             /\ createShortUrlInsert(q)
             /\ ~\E u \in store : u.urlCode = q.customAlias)
            => \E u \in store' :
                  /\ store' = store \cup {u} /\ u \notin store
                  /\ u.urlCode = q.customAlias /\ u.longUrl = q.longUrl
                  /\ IdToString(u.userId) = IdToString(q.userId)
                  /\ u.clicks = 0 /\ u.analytics = <<>>
       /\ \A q \in Requests :
            (q.customAlias # NoAlias /\ createShortUrlReturn(q))
            => /\ ret'.op = "createShortUrl" /\ ret'.ok
               /\ ret'.url[1].urlCode = q.customAlias
               /\ q.customAlias \in DOMAIN cache'
               /\ cache'[q.customAlias] = ret'.url[1]
      ]_vars

\* the second creation with an alias is refused while the first record,
\* clicked since, is stored and cached
C6_Witness ==
    /\ ret.op = "createShortUrl" /\ ~ret.ok
    /\ Cause(ret.error) = "Custom alias already in use"
    /\ \E u \in store : u.urlCode = ret.urlCode /\ u.clicks > 0
    /\ ret.urlCode \in DOMAIN cache

\* C7: an insert that finds a record of its code (the other creation won the
\* race after both found the alias free) fails with the store's duplicate
\* key error, which is neither the 'already in use' nor the format error,
\* and leaves the store and the cache as they are; an insert never leaves
\* two records of one code.
C7_AliasRaceHasOneWinner ==
    [][\A q \in Requests :
          (createShortUrlInsert(q) /\ \E u \in store : u.urlCode = q.urlCode)
          => /\ ret'.op = "createShortUrl" /\ ~ret'.ok
             /\ Cause(ret'.error) = "E11000 duplicate key error"
             /\ Cause(ret'.error) # Cause(ErrAliasInUse)
             /\ Cause(ret'.error) # Cause(ErrInvalidAlias)
             /\ UNCHANGED <<store, cache>>
             /\ Cardinality({u \in store' : u.urlCode = q.urlCode}) = 1
      ]_vars

\* the loser of a race on a custom alias was refused, and the winner's
\* record is stored
C7_Witness ==
    /\ ret.op = "createShortUrl" /\ ~ret.ok
    /\ ret.urlCode = GoodAlias
    /\ Cause(ret.error) = "E11000 duplicate key error"
    /\ \E u \in store : u.urlCode = GoodAlias

\* C8: every stored record's clicks counter equals the length of its
\* analytics log.
C8_ClicksEqualLogLength ==
    \A u \in store : u.clicks = Len(u.analytics)

\* a clicked record was flagged expired by getUrl's save
C8_Witness ==
    \E u \in store : u.clicks = 2 /\ u.isExpired /\ u.expiresAt >= u.createdAt

\* C9: a record created with expiresAt in the past is flagged expired from
\* the start; the flag of a stored record is never cleared; a getUrl that
\* reports 'URL has expired' leaves the record flagged in the store; a
\* getUrl that fails on a record still stored reports 'URL has expired';
\* and getUrl never returns a record that is flagged in the store, whatever
\* trackClick and getUrl calls come in between.
C9_ExpirationIsTerminal ==
    [][/\ \A v \in store' :
            (v.expiresAt # NullDate /\ v.expiresAt < v.createdAt) => v.isExpired
       /\ \A u \in store, v \in store' :
            (u.id = v.id /\ u.isExpired) => v.isExpired
       /\ (ret'.op = "getUrl" /\ ~ret'.ok /\ Cause(ret'.error) = "URL has expired")
            => /\ ret'.url # <<>>
               /\ \E v \in store' : v.id = ret'.url[1].id /\ v.isExpired
       /\ (ret'.op = "getUrl" /\ ~ret'.ok /\ ret'.url # <<>>
              /\ ret'.url[1].id \in {v.id : v \in store'})
            => Cause(ret'.error) = "URL has expired"
       /\ (ret'.op = "getUrl" /\ ret'.ok)
            => \A v \in store' : v.id = ret'.url[1].id => ~v.isExpired
      ]_vars

\* a record created with expiresAt in the past is reported expired
C9_Witness ==
    /\ ret.op = "getUrl" /\ ~ret.ok
    /\ Cause(ret.error) = "URL has expired"
    /\ ret.url # <<>> /\ ret.url[1].expiresAt < ret.url[1].createdAt

\* C10: a deleteUrl that finds no record of the code fails with 'No such
\* URL', one whose requester's id differs as a string from the owner's
\* fails with 'Not authorized'; both leave the store and the cache as they
\* are and start no deletion; the owner's call goes on to delete.
C10_FailedDeleteChangesNothing ==
    [][\A urlCode \in DeleteCodes, userId \in UserIds :
          deleteUrl(urlCode, userId) =>
            LET found == {u \in store : u.urlCode = urlCode}
            IN  /\ found = {} =>
                     /\ ret'.op = "deleteUrl" /\ ~ret'.ok
                     /\ ret'.error = <<"No such URL">>
                     /\ UNCHANGED <<store, cache, inflight>>
                /\ (\E u \in found : u.userId.hex # userId.hex) =>
                     /\ ret'.op = "deleteUrl" /\ ~ret'.ok
                     /\ ret'.error = <<"Not authorized">>
                     /\ UNCHANGED <<store, cache, inflight>>
                /\ (\E u \in found : u.userId.hex = userId.hex) =>
                     /\ ret' = NoRet
                     /\ UNCHANGED <<store, cache>>
                     /\ \E q \in BagToSet(inflight') :
                           /\ q.op = "deleteUrl" /\ q.url = FindOne(urlCode)
                           /\ CopiesIn(q, inflight') = CopiesIn(q, inflight) + 1
      ]_vars

\* a non-owner's deleteUrl was refused on a record that is stored, cached
\* and resolvable
C10_Witness ==
    /\ ret.op = "deleteUrl" /\ ~ret.ok
    /\ ret.error = <<"Not authorized">>
    /\ \E u \in store : /\ u.urlCode = ret.urlCode
                         /\ ret.urlCode \in DOMAIN cache
                         /\ cache[ret.urlCode] = u
                         /\ CacheFresh(u, now)

\* C11: a createShortUrl that fails (alias format, alias in use, QR encoding,
\* duplicate key) changes neither the store nor the cache in the step that
\* fails, and had changed nothing before: a creation that has inserted its
\* record does not fail afterwards, and the cache holds only records that
\* the store has inserted.
C11_FailedCreateWritesNothing ==
    [][/\ (ret'.op = "createShortUrl" /\ ~ret'.ok) =>
            /\ UNCHANGED <<store, cache>>
            /\ \A q \in Requests :
                  (IsCreate(q) /\ q.pc = "saved") =>
                      CopiesIn(q, inflight') = CopiesIn(q, inflight)
       /\ \A c \in DOMAIN cache' : cache'[c].id \in 1..(nextId' - 1)
      ]_vars

\* a creation failed on the QR encoding, and neither the store nor the
\* cache has anything under its code
C11_Witness ==
    /\ ret.op = "createShortUrl" /\ ~ret.ok
    /\ Cause(ret.error) = Cause(ErrQrCode)
    /\ ret.urlCode \notin DOMAIN cache
    /\ ~\E u \in store : u.urlCode = ret.urlCode

\* C12: createShortUrl returns the record with clicks = 0, an empty log and
\* the longUrl it was given; a getUrl of the code called right after that
\* return, the record's deadline (if any) still ahead, returns that very
\* record at once; with the deadline exactly at the current time the call
\* is not answered from the cache and asks the store.
C12_GetAfterCreateReturnsIt ==
    [][/\ \A q \in Requests :
            createShortUrlReturn(q) =>
                /\ ret'.ok /\ ret'.url[1].urlCode = q.urlCode
                /\ ret'.url[1].longUrl = q.longUrl
                /\ ret'.url[1].clicks = 0 /\ ret'.url[1].analytics = <<>>
       /\ \A handler \in Handlers, urlCode \in UrlCodes, reqData \in ReqDatas \cup {NoData} :
            (/\ ret.op = "createShortUrl" /\ ret.ok /\ ret.urlCode = urlCode
             /\ ~ret.url[1].isExpired
             /\ getUrl(handler, urlCode, reqData))
            => IF ret.url[1].expiresAt = NullDate \/ now < ret.url[1].expiresAt
               THEN /\ ret'.op = "getUrl" /\ ret'.ok
                    /\ ret'.url = ret.url
                    /\ ret'.url[1].clicks = 0
               ELSE /\ ret' = NoRet
                    /\ urlCode \notin DOMAIN cache'
                    /\ \E r \in BagToSet(inflight') :
                          /\ r.op = handler /\ r.pc = "findOne" /\ r.urlCode = urlCode
                          /\ CopiesIn(r, inflight') = CopiesIn(r, inflight) + 1
      ]_vars

\* a record with a deadline ahead, created and not clicked, is returned by
\* getUrl from the cache as it is stored
C12_Witness ==
    /\ ret.op = "getUrl" /\ ret.ok /\ ret.via = "cache"
    /\ ret.url[1].clicks = 0
    /\ ret.url[1].expiresAt # NullDate /\ now < ret.url[1].expiresAt
    /\ FindOne(ret.urlCode) = ret.url
    /\ inflight = EmptyBag

\* C13: a getUrl of a code that the cache does not hold asks the store and
\* changes neither the store nor the cache; when the store has no record of
\* the code either, the call fails with 'URL not found' (404 from both
\* handlers), and store and cache stay as they are: no entry is made for
\* the code.
C13_MissFailsAndWritesNothing ==
    [][/\ \A handler \in Handlers, urlCode \in UrlCodes, reqData \in ReqDatas \cup {NoData} :
            (urlCode \notin DOMAIN cache /\ getUrl(handler, urlCode, reqData))
            => /\ UNCHANGED <<store, cache>>
               /\ ret' = NoRet
               /\ \E r \in BagToSet(inflight') :
                     /\ r.op = handler /\ r.pc = "findOne" /\ r.urlCode = urlCode
                     /\ CopiesIn(r, inflight') = CopiesIn(r, inflight) + 1
       /\ \A q \in Requests :
            (getUrlFindOne(q) /\ ~\E u \in store : u.urlCode = q.urlCode)
            => /\ ret'.op = "getUrl" /\ ~ret'.ok
               /\ ret'.error = <<"Error retrieving URL", "URL not found">>
               /\ ret'.status = 404
               /\ UNCHANGED <<store, cache>>
               /\ CopiesIn(q, inflight') = CopiesIn(q, inflight) - 1
      ]_vars

\* a redirect to a code that neither the cache nor the store holds was
\* answered 'URL not found'
C13_Witness ==
    /\ ret.op = "getUrl" /\ ~ret.ok /\ ret.handler = "redirect"
    /\ Cause(ret.error) = "URL not found"
    /\ ret.urlCode \notin DOMAIN cache
    /\ ~\E u \in store : u.urlCode = ret.urlCode

\* a step of the bulk request q
BulkStep(q) ==
    \/ createBulkUrlsCall(q) \/ createBulkUrlsQrFails(q) \/ createBulkUrlsSave(q)
    \/ createBulkUrlsInsert(q) \/ createBulkUrlsPush(q)

\* the outcomes rs are those of the items urls, in their order
OutcomesOf(rs, urls) ==
    /\ Len(rs) <= Len(urls)
    /\ \A i \in 1..Len(rs) :
          /\ rs[i].originalUrl = urls[i].longUrl
          /\ rs[i].success => rs[i].error = NoError /\ rs[i].shortUrl # <<>>
          /\ ~rs[i].success => rs[i].error # NoError /\ rs[i].shortUrl = <<>>

\* C14: createBulkUrls never fails as a whole and returns one outcome per
\* item, in the items' order: a step of a bulk request keeps the outcomes
\* it has and adds at most one, for the next item, whether that item
\* failed or not; the call returns when every item has its outcome, with
\* ok; and every success of the returned array is a stored record with the
\* item's longUrl whose cache entry getUrl returns.
C14_BulkOneOutcomePerItem ==
    [][/\ ret'.op = "createBulkUrls" => ret'.ok
       /\ \A q \in Requests :
            (IsBulk(q) /\ BulkStep(q)) =>
              LET after == IF ret'.op = "createBulkUrls" THEN ret'.results
                           ELSE (CHOOSE r \in BagToSet(inflight') :
                                    IsBulk(r) /\ r.urls = q.urls
                                    /\ CopiesIn(r, inflight') = CopiesIn(r, inflight) + 1).results
              IN  /\ OutcomesOf(after, q.urls)
                  /\ Len(after) \in {Len(q.results), Len(q.results) + 1}
                  /\ \A i \in 1..Len(q.results) : after[i] = q.results[i]
                  /\ ret'.op = "createBulkUrls" <=> Len(after) = Len(q.urls)
                  /\ ret'.op = "createBulkUrls" =>
                        \A i \in 1..Len(after) :
                          after[i].success =>
                            \E u \in store' :
                              /\ u.shortUrl = after[i].shortUrl
                              /\ u.longUrl = q.urls[i].longUrl
                              /\ u.urlCode \in DOMAIN cache'
                              /\ cache'[u.urlCode] = u
                              /\ CacheFresh(u, now')
       /\ \A urlCode \in UrlCodes \cup NanoidCodes :
            (/\ getUrl("getQrCode", urlCode, NoData)
             /\ urlCode \in DOMAIN cache /\ CacheFresh(cache[urlCode], now))
            => ret'.ok /\ ret'.url = <<cache[urlCode]>>
      ]_vars

\* a batch of two was answered: the first item failed, the second one was
\* created after it and is stored
C14_Witness ==
    /\ ret.op = "createBulkUrls" /\ ret.ok
    /\ Len(ret.results) = 2
    /\ ~ret.results[1].success /\ ret.results[2].success
    /\ \E u \in store : u.shortUrl = ret.results[2].shortUrl

\* C15: POST /urls/bulk with one valid and one malformed URL is not refused
\* as a whole: the batch enters the service, which owes it one outcome per
\* item (success true for the valid URL, false for the malformed one).
MixedBatch ==
    << [longUrl |-> ValidLongUrl, customAlias |-> NoAlias],
       [longUrl |-> MalformedLongUrl, customAlias |-> NoAlias] >>
C15_MixedBatchGetsTwoOutcomes ==
    [][\A userId \in Creators :
         (CanEnter /\ createBulkUrlsRoute(MixedBatch, userId))
         => /\ ret' = NoRet
            /\ \E r \in BagToSet(inflight') :
                  IsBulk(r) /\ Len(r.urls) = 2 /\ r.results = <<>>
      ]_vars

\* C16: a creation whose body supplies a custom alias outside
\* [A-Za-z0-9_-]+ (the empty alias included) fails with the alias format
\* error and starts no insert, under the alias or under a generated code.
C16_MalformedAliasIsRefused ==
    [][\A body \in ShortenBodies, userId \in Creators :
         (/\ body.customAlias \in SuppliedAliases
          /\ ~ValidAlias(body.customAlias)
          /\ shortenUrl(body.longUrl, body.customAlias, body.expiresIn, userId))
         => /\ ret'.op = "createShortUrl" /\ ~ret'.ok
            /\ ret'.error = Wrap("Error creating short URL", ErrInvalidAlias)
            /\ inflight' = inflight
      ]_vars

\* C17: getAllUrls(userId) returns the summaries of exactly the stored
\* records of that owner, each once, from the newest to the oldest.
C17_ListIsOwnersNewestFirst ==
    [][\A userId \in UserIds :
         getAllUrls(userId)
         => /\ ret'.ok
            /\ {ret'.urls[i].id : i \in 1..Len(ret'.urls)}
                 = {u.id : u \in {v \in store : v.userId.hex = userId.hex}}
            /\ \A i, j \in 1..Len(ret'.urls) :
                  i # j => ret'.urls[i].id # ret'.urls[j].id
            /\ \A i \in 1..Len(ret'.urls) :
                  \E u \in store :
                    /\ u.id = ret'.urls[i].id
                    /\ ret'.urls[i] = Select(u)
            /\ \A i, j \in 1..Len(ret'.urls) :
                  i < j => ret'.urls[i].createdAt >= ret'.urls[j].createdAt
      ]_vars

\* a list of two records of one owner, the newer one first, while another
\* owner has a record in the store
C17_Witness ==
    /\ ret.op = "getAllUrls" /\ ret.ok
    /\ Len(ret.urls) = 2
    /\ ret.urls[1].createdAt > ret.urls[2].createdAt
    /\ ret.urls[1].id < ret.urls[2].id
    /\ \E u \in store : \A i \in 1..2 : u.id # ret.urls[i].id

\* C18: getUrlStats reports as lastClicked the latest timestamp of the log
\* it read, and reports none for an empty log.
MaxTimestamp(log) ==
    CHOOSE t \in {log[i].timestamp : i \in 1..Len(log)} :
        \A i \in 1..Len(log) : log[i].timestamp <= t
C18_LastClickedIsMostRecent ==
    [][\A q \in Requests :
         (getUrlStatsReturn(q) /\ ret'.ok)
         => ret'.stats[1].lastClicked =
               IF q.url[1].analytics = <<>> THEN <<>>
               ELSE <<MaxTimestamp(q.url[1].analytics)>>
      ]_vars

\* C19: getUrlStats gives every event of the log one label, the first of
\* Chrome, Firefox, Safari, Edge that its userAgent contains and Other when
\* it contains none, and browserStats counts the events of each label.
BrowserLabel(click) ==
    LET has(name) == click.userAgent # <<>> /\ Includes(click.userAgent[1], name)
    IN  IF has("Chrome") THEN "Chrome"
        ELSE IF has("Firefox") THEN "Firefox"
        ELSE IF has("Safari") THEN "Safari"
        ELSE IF has("Edge") THEN "Edge"
        ELSE "Other"
C19_BrowserStatsByPriority ==
    [][\A q \in Requests :
         getUrlStatsReturn(q)
         => LET log == q.url[1].analytics
            IN  /\ ret'.ok
                /\ DOMAIN ret'.stats[1].browserStats
                     = {BrowserLabel(log[i]) : i \in 1..Len(log)}
                /\ \A b \in DOMAIN ret'.stats[1].browserStats :
                      ret'.stats[1].browserStats[b]
                        = Cardinality({i \in 1..Len(log) : BrowserLabel(log[i]) = b})
      ]_vars

\* C20: in every report of getUrlStats, referrerStats counts each event of
\* the log once, under its referer, or under Direct when the referer is
\* absent or empty.
ReferrerKey(click) ==
    IF click.referer \in {<<>>, <<"">>} THEN "Direct" ELSE click.referer[1]
C20_ReferrerStatsCountsEachEvent ==
    [][\A q \in Requests :
         (getUrlStatsReturn(q) /\ ret'.ok)
         => LET log == q.url[1].analytics
            IN  /\ DOMAIN ret'.stats[1].referrerStats
                     = {ReferrerKey(log[i]) : i \in 1..Len(log)}
                /\ \A r \in DOMAIN ret'.stats[1].referrerStats :
                      ret'.stats[1].referrerStats[r]
                        = Number(Cardinality({i \in 1..Len(log) : ReferrerKey(log[i]) = r}))
      ]_vars

\* C21: in every report of getUrlStats, clicksByDate has one entry for each
\* UTC date on which the log has an event, with the number of the events of
\* that date, and the entries go from the earliest date to the latest,
\* whatever the order of the events in the log.
C21_ClicksByDateAscending ==
    [][\A q \in Requests :
         (getUrlStatsReturn(q) /\ ret'.ok)
         => LET log    == q.url[1].analytics
                byDate == ret'.stats[1].clicksByDate
            IN  /\ {byDate[i].date : i \in 1..Len(byDate)}
                     = {log[k].timestamp \div MsPerDay : k \in 1..Len(log)}
                /\ \A i \in 1..Len(byDate) :
                      byDate[i].clicks
                        = Cardinality({k \in 1..Len(log) :
                                         log[k].timestamp \div MsPerDay = byDate[i].date})
                /\ \A i, j \in 1..Len(byDate) : i < j => byDate[i].date < byDate[j].date
      ]_vars

\* a report with two dates in ascending order, for a log whose first event
\* is of the later date
C21_Witness ==
    /\ ret.op = "getUrlStats" /\ ret.ok
    /\ Len(ret.stats[1].clicksByDate) = 2
    /\ ret.stats[1].clicksByDate[1].date < ret.stats[1].clicksByDate[2].date
    /\ ret.url[1].analytics[1].timestamp > ret.url[1].analytics[2].timestamp
    /\ ret.url[1].analytics[1].timestamp \div MsPerDay = ret.stats[1].clicksByDate[2].date

\* C22: every report of getUrlStats has averageClicksPerDay 0 for an empty
\* log, and else clicks divided by the days from the log's first event to
\* now, rounded up to whole days and at least 1, to two decimals (here in
\* hundredths); so the average is at most the number of clicks.
AverageDivisor(elapsed) ==
    CHOOSE d \in 1..(MaxDays + 1) :
        /\ d * MsPerDay >= elapsed
        /\ \A e \in 1..(MaxDays + 1) : e * MsPerDay >= elapsed => d <= e
Expired(u, t) == u.isExpired \/ (u.expiresAt # NullDate /\ t > u.expiresAt)
C23_ExpiredStaysForStatsAndDelete ==
    [][/\ (\E u \in store : \A v \in store' : v.id # u.id)
          => \E q \in Requests : q.op = "deleteUrl" /\ deleteUrlDeleteOne(q)
       /\ \A urlCode \in UrlCodes :
            (/\ getUrlStats(urlCode)
             /\ \E u \in store : u.urlCode = urlCode /\ Expired(u, now))
            => /\ ret' = NoRet
               /\ \E r \in BagToSet(inflight') :
                     /\ r.op = "getUrlStats" /\ r.url # <<>>
                     /\ r.url[1] \in store
       /\ \A q \in Requests :
            (getUrlStatsReturn(q) /\ Expired(q.url[1], now))
            => /\ ret'.ok /\ ret'.status = 200
               /\ ret'.stats[1].totalClicks = q.url[1].clicks
               /\ ret'.stats[1].totalClicks = Len(q.url[1].analytics)
               /\ q.url[1].analytics # <<>> =>
                     ret'.stats[1].lastClicked
                       = <<q.url[1].analytics[Len(q.url[1].analytics)].timestamp>>
       /\ \A urlCode \in UrlCodes, userId \in UserIds :
            (/\ deleteUrl(urlCode, userId)
             /\ \E u \in store : /\ u.urlCode = urlCode /\ Expired(u, now)
                                  /\ u.userId.hex = userId.hex)
            => /\ ret' = NoRet
               /\ \E r \in BagToSet(inflight') : r.op = "deleteUrl" /\ r.urlCode = urlCode
       /\ \A q \in Requests :
            (deleteUrlDeleteOne(q) /\ Expired(q.url[1], now))
            => /\ ret'.ok /\ ret'.status = 200
               /\ \A v \in store' : v.id # q.url[1].id
      ]_vars

\* the statistics of a record that getUrl has flagged as expired, with the
\* click it got before its deadline
C23_Witness ==
    /\ ret.op = "getUrlStats" /\ ret.ok
    /\ ret.url[1].isExpired
    /\ ret.stats[1].totalClicks > 0
    /\ ret.url[1] \in store

\* the limit the README states for login requests
DocumentedLoginMax == 10

\* C24: login requests from one address are limited to 10 between two
\* resets of the limiter: a login request that arrives when the limiter
\* has already counted 10 from its address is answered 429 by the limiter
\* and does not reach the login handler.
C24_EleventhLoginRejected ==
    [][\A ip \in Ips :
         (/\ hits.authLimiter[ip] >= DocumentedLoginMax
          /\ hits'.authLimiter[ip] = hits.authLimiter[ip] + 1)
         => (ret'.status = 429 /\ ret'.handler = "authLimiter")]_vars

\* C25: when refreshApiKey succeeds for a user, the key it returns differs
\* from the key the user had, which is retired, and is the user's key in
\* the store; a request that presents a retired key to the auth middleware
\* is answered 401, and a request that presents a user's stored key is
\* handed to the handler as that user; no retired key is ever a stored key
\* again.
C25_RefreshReplacesKey ==
    [][/\ (ret'.op = "refreshApiKey" /\ ret'.status = 200) =>
            \A u \in users : u.id = ret'.user.id =>
                /\ ret'.user.apiKey # u.apiKey
                /\ u.apiKey \in retiredKeys'
                /\ \E v \in users' : v.id = u.id /\ v.apiKey = ret'.user.apiKey
       /\ (ret'.op = "auth" /\ ret'.via = "X-API-Key") =>
            /\ ret'.user.apiKey \in retiredKeys =>
                   (~ret'.ok /\ ret'.status = 401)
            /\ \A u \in users : u.apiKey = ret'.user.apiKey =>
                   (ret'.ok /\ ret'.status = 0 /\ ret'.user.id = u.id)
       /\ \A u \in users' : u.apiKey \notin retiredKeys']_vars

\* a request presenting a key that a refresh replaced is answered 401 while
\* the key that replaced it is some user's key
C25_Witness ==
    /\ ret.op = "auth" /\ ret.via = "X-API-Key"
    /\ ret.user.apiKey \in retiredKeys
    /\ ret.status = 401
    /\ \E u \in users : u.apiKey > ret.user.apiKey

\* C26: no write to the cache replaces the cached record of a code by an
\* older version of the same record, one with fewer clicks, whatever the
\* order in which trackClick and getUrl resume.
C26_CacheNeverGoesBack ==
    [][\A c \in (DOMAIN cache) \cap (DOMAIN cache') :
         cache'[c].id = cache[c].id => cache'[c].clicks >= cache[c].clicks]_vars

\* the step is the completion of a writer of the cache entry of code c:
\* createShortUrl, the store fallback of getUrl or trackClick resumes with
\* the record the store confirmed
WriterCompletes(c, url) ==
    /\ ret'.urlCode = c
    /\ \/ ret'.op = "createShortUrl" /\ ret'.ok /\ ret'.url = <<url>>
       \/ ret'.op = "getUrl" /\ ret'.ok /\ ret'.via = "store" /\ ret'.url = <<url>>
       \/ ret'.op = "redirect" /\ ret'.tracked = <<url>>

C28_LogChronological ==
    \A u \in store :
        \A i, j \in 1..Len(u.analytics) :
            i < j => u.analytics[i].timestamp <= u.analytics[j].timestamp

\* C29: when getUrl has found in the store a record that is flagged
\* expired or past its deadline, the store holds that record with
\* isExpired = TRUE when 'URL has expired' is reported; the write changes
\* nothing else of the stored record (its clicks, log, longUrl, owner and
\* deadline are as they were, also with a click recorded meanwhile) and no
\* other record; and the code is then absent from the cache.
C29_ExpiredLookupSetsOnlyTheFlag ==
    [][\A q \in Requests :
         (getUrlSave(q) /\ Cause(ret'.error) = ErrExpired[1])
         => /\ \E u \in store :
                 /\ u.id = q.url[1].id
                 /\ store' = (store \ {u}) \cup {[u EXCEPT !.isExpired = TRUE]}
            /\ q.urlCode \notin DOMAIN cache']_vars

\* C29, amended: the store holds the record with isExpired = TRUE when 'URL
\* has expired' is reported, and the write changes nothing else of the
\* stored record and no other record, also with a click recorded
\* meanwhile; getUrl does not write the cache on this path: the call has
\* removed the entry of the code when it started, and neither the test of
\* the record found nor the save touches the cache.
C29_ExpiredLookupLeavesCacheAlone ==
    [][/\ \A q \in Requests :
            (getUrlSave(q) /\ Cause(ret'.error) = ErrExpired[1])
            => /\ \E u \in store :
                    /\ u.id = q.url[1].id
                    /\ store' = (store \ {u}) \cup {[u EXCEPT !.isExpired = TRUE]}
               /\ cache' = cache
       /\ \A q \in Requests :
            (getUrlFound(q) /\ Expired(q.url[1], now))
            => (cache' = cache /\ store' = store /\ ret' = NoRet)
       /\ \A q \in BagToSet(inflight') :
            (q \notin Requests /\ q.op \in Handlers /\ q.pc = "findOne")
            => q.urlCode \notin DOMAIN cache']_vars

\* 'URL has expired' is reported for a record that got a click between the
\* lookup and the save: the stored record is flagged and has the click
C29_Witness ==
    /\ ret.op = "getUrl" /\ ret.error # NoError /\ ret.url # <<>>
    /\ Cause(ret.error) = ErrExpired[1]
    /\ \E u \in store :
         /\ u.id = ret.url[1].id
         /\ u.isExpired
         /\ u.clicks > ret.url[1].clicks
         /\ Len(u.analytics) = u.clicks

\* C30: a getUrl that succeeds from the store leaves the record it returns
\* in the cache under its code; a trackClick that succeeds leaves the
\* updated record it returns in the cache under its code; a trackClick
\* that finds no record of the code changes neither the store (no record is
\* created) nor the cache, and returns nothing.
C30_WriteThrough ==
    [][/\ (ret'.op = "getUrl" /\ ret'.ok /\ ret'.via = "store")
            => /\ ret'.urlCode \in DOMAIN cache'
               /\ cache'[ret'.urlCode] = ret'.url[1]
       /\ \A q \in Requests :
            (trackClickUpdate(q) /\ FindOne(q.urlCode) = <<>>)
            => (store' = store /\ cache' = cache /\ nextId' = nextId)
       /\ \A q \in Requests :
            trackClickReturn(q)
            => IF q.updated = <<>>
               THEN cache' = cache /\ store' = store /\ ret'.tracked = <<>>
               ELSE /\ ret'.tracked = q.updated
                    /\ q.urlCode \in DOMAIN cache'
                    /\ cache'[q.urlCode] = q.updated[1]]_vars

\* a click on a code whose record was deleted meanwhile has returned
\* nothing: no record of the code is stored and the cache has no entry
C30_Witness ==
    /\ ret.op = "redirect" /\ ret.tracked = <<>>
    /\ FindOne(ret.urlCode) = <<>>
    /\ ret.urlCode \notin DOMAIN cache
    /\ nextId > 1

\* C31: the clicks of a stored record never decrease as long as the record
\* is stored, and only trackClick changes the clicks or the analytics of a
\* stored record (by one click and one event): createShortUrl, getUrl,
\* getUrlStats, getAllUrls and a refused deleteUrl leave them as they are.
C31_OnlyTrackClickCounts ==
    [][/\ \A u \in store, v \in store' :
            v.id = u.id => v.clicks >= u.clicks
       /\ (\E u \in store, v \in store' :
              /\ v.id = u.id
              /\ (v.clicks # u.clicks \/ v.analytics # u.analytics))
          => \E q \in Requests :
                /\ q.op = "redirect" /\ q.pc = "findOneAndUpdate"
                /\ trackClickUpdate(q)
                /\ \A u \in store, v \in store' :
                      v.id = u.id =>
                         \/ (v.clicks = u.clicks /\ v.analytics = u.analytics)
                         \/ /\ u.urlCode = q.urlCode
                            /\ v.clicks = u.clicks + 1
                            /\ v.analytics = Append(u.analytics, ClickEvent(q))
       /\ (ret'.op \in {"createShortUrl", "getUrl", "getUrlStats", "getAllUrls"}
             \/ (ret'.op = "deleteUrl" /\ ~ret'.ok))
          => \A u \in store, v \in store' :
                v.id = u.id => (v.clicks = u.clicks /\ v.analytics = u.analytics)]_vars

\* a deleteUrl by another user has been refused on a record that has
\* been clicked twice
C31_Witness ==
    /\ ret.op = "deleteUrl" /\ ~ret.ok /\ ret.status = 403
    /\ \E u \in store :
         u.urlCode = ret.urlCode /\ u.clicks = 2 /\ Len(u.analytics) = 2

\* C32: no step changes the urlCode, longUrl, shortUrl, owner, createdAt or
\* expiresAt of a stored record: from its insertion to its deletion a record
\* keeps the values it was created with, under getUrl, trackClick,
\* getUrlStats, getAllUrls, refused deletions and creations of other records.
C32_CreationFieldsImmutable ==
    [][\A u \in store, v \in store' :
         v.id = u.id =>
            /\ v.urlCode = u.urlCode
            /\ v.longUrl = u.longUrl
            /\ v.shortUrl = u.shortUrl
            /\ v.userId = u.userId
            /\ v.createdAt = u.createdAt
            /\ v.expiresAt = u.expiresAt]_vars

\* a record with a deadline has been clicked, has passed its deadline and
\* has been flagged by a lookup, and another record has been created
C32_Witness ==
    \E u \in store :
        /\ u.urlCode = GoodAlias
        /\ u.clicks >= 1 /\ u.isExpired
        /\ u.expiresAt # NullDate /\ now > u.expiresAt
        /\ \E v \in store : v.id # u.id /\ v.createdAt >= u.createdAt

\* the sum of the counts f[k] over the keys
RECURSIVE SumCounts(_, _)
SumCounts(f, keys) ==
    IF keys = {} THEN 0
    ELSE LET k == CHOOSE x \in keys : TRUE
         IN  f[k] + SumCounts(f, keys \ {k})

\* C33: the statistics of one report of getUrlStats agree with each other:
\* totalClicks is the clicks of the record read, and the counts of
\* browserStats, of referrerStats and of clicksByDate each add up to
\* totalClicks, also while clicks are being recorded.
C33_StatsAddUp ==
    [][\A q \in Requests :
         (getUrlStatsReturn(q) /\ ret'.ok)
         => LET stats == ret'.stats[1]
            IN  /\ stats.totalClicks = q.url[1].clicks
                /\ SumCounts(stats.browserStats, DOMAIN stats.browserStats)
                     = stats.totalClicks
                /\ \A r \in DOMAIN stats.referrerStats :
                      stats.referrerStats[r].type = "number"
                /\ SumCounts([r \in DOMAIN stats.referrerStats |->
                                 stats.referrerStats[r].value],
                             DOMAIN stats.referrerStats)
                     = stats.totalClicks
                /\ SumCounts([i \in 1..Len(stats.clicksByDate) |->
                                 stats.clicksByDate[i].clicks],
                             1..Len(stats.clicksByDate))
                     = stats.totalClicks
      ]_vars

\* C34: once a record has been deleted and the creation of a new record
\* under the same custom alias has completed, a getUrl for the alias that
\* arrives then never returns the deleted record: the record it is
\* answered with (here from the cache, in the step in which it arrives) is
\* the stored one, whatever getUrl or trackClick calls on the old record
\* were in flight around the deletion.
C34_DeletedNotReturnedAfterRecreation ==
    [][(/\ ret'.op = "getUrl" /\ ret'.ok /\ ret'.via = "cache"
        /\ \E v \in store : v.urlCode = ret'.urlCode
        /\ \A q \in Requests : ~(q.op = "shortenUrl" /\ q.urlCode = ret'.urlCode))
       => \E v \in store : v.id = ret'.url[1].id]_vars

\* C35: no click is recorded on an expired record: no event of a stored
\* log has a timestamp later than the record's expiresAt, and the clicks
\* of a record are never incremented when the record is flagged expired or
\* past its deadline, also when the deadline passes between the handler's
\* getUrl and its trackClick.
C35_NoClickOnExpired ==
    [][/\ \A v \in store' :
            v.expiresAt # NullDate =>
               \A i \in 1..Len(v.analytics) : v.analytics[i].timestamp <= v.expiresAt
       /\ \A u \in store, v \in store' :
            (v.id = u.id /\ v.clicks > u.clicks) => ~Expired(u, now)]_vars


\* C36: whenever the cache and the store both hold a record for the same
\* code, the cached record is a past or present version of the stored one:
\* same longUrl and owner, and cached clicks at most the stored clicks.
C36_CachedIsAVersionOfStored ==
    \A code \in DOMAIN cache : \A u \in store :
        u.urlCode = code =>
           /\ cache[code].longUrl = u.longUrl
           /\ cache[code].userId = u.userId
           /\ cache[code].clicks <= u.clicks


\* C37: getUrlStats succeeds for every record found in the store, whatever
\* the events of its log; the events recorded without a User-Agent header
\* are counted under Other and do not make the request fail.
C37_StatsSucceedForStoredRecords ==
    [][\A q \in Requests :
         getUrlStatsReturn(q)
         => LET log    == q.url[1].analytics
                absent == {i \in 1..Len(log) : log[i].userAgent = <<>>}
            IN  /\ ret'.ok
                /\ ret'.status = 200
                /\ ret'.error = NoError
                /\ absent # {}
                     => /\ "Other" \in DOMAIN ret'.stats[1].browserStats
                        /\ ret'.stats[1].browserStats["Other"] >= Cardinality(absent)
      ]_vars

====
